---- MODULE Spec2Model ----
(***************************************************************************)
(* Web-Novel-Scraper-Suite: the link store, the chapter-list ledger, the   *)
(* reconciler (check_for_updates, check_for_revived_links), the chunk      *)
(* merge (assemble_chapter_list), the fetch loop (scrape_story_content of  *)
(* modules/content_manager.py) and the archive builder, for one story.    *)
(* The specifications share the actions: SpecLinks (the link store from    *)
(* the first crawl on), SpecMerge (the chunk merge on a long story), Spec  *)
(* (checks and fetch runs on a crawled story), SpecFetch (fetch runs and   *)
(* kills), SpecApply (an update check write by write, with kills),         *)
(* SpecBuild (fetch runs over any short output file), SpecSession (the     *)
(* browser of crawls and fetch runs), SpecStray (a merge with a link file  *)
(* of another name), SpecOffSite (a link to a site without an adapter),    *)
(* SpecRegistry (stories.json with other stories), SpecDiscover (the       *)
(* adapters' lists and their reversal flag), SpecRebuild (fetch runs with  *)
(* the archive rebuild write by write, with kills), SpecAssemble (the      *)
(* chapter list assembled from chosen link files, and fetch runs),         *)
(* SpecMergeSteps (the chunk merge write by write, with kills) and         *)
(* SpecFetchFair (fetch runs that go on once started).                     *)
(*                                                                         *)
(* Text files are sequences of tokens.  A token is a pair <<kind, n>>.     *)
(* A ledger line is the sequence of its space-separated tokens; the        *)
(* archive file is one sequence in which NL is a line feed, DASH the       *)
(* three-hyphen marker and every other token a word (single spaces         *)
(* between words are not represented).                                     *)
(***************************************************************************)
EXTENDS Integers, Sequences, FiniteSets, TLC

VARIABLES
    db,          \* stories.json: the story's record (or none), the records of other stories
    chunks,      \* links/ folder: set of [first, last, urls] chunk files
    tracker,     \* links/_added_links_tracker.json: <<first,last>> of merged chunk files
    ledger,      \* chapter_list.txt: sequence of lines, or NoFile
    archive,     \* "<name> Scraped Chapters.txt": token sequence (<<>> when absent)
    failedFile,  \* failed_chapters.txt: sequence of URL strings
    pc,          \* position of the running handler ("idle" between handlers)
    todo,        \* scrape_story_content: urls_to_scrape, sequence of [index, url]
    pos,         \* scrape_story_content: 1-based position in urls_to_scrape
    attempt,     \* scrape_story_content: attempt of range(3)
    cur,         \* scrape_story_content: (title, content) of the fetch just made
    failed_urls, \* scrape_story_content: failed_urls
    scraped,     \* scrape_story_content: scraped_something_new
    upd,         \* check_for_updates while it applies a diff: its local variables
    build,       \* _build_final_file while it writes: its local variables
    merge,       \* assemble_chapter_list while it appends: its local variables
    hist         \* history of the last handler: what it read, reported and wrote

vars == <<db, chunks, tracker, ledger, archive, failedFile, pc, todo, pos,
          attempt, cur, failed_urls, scraped, upd, build, merge,
          hist>>

-----------------------------------------------------------------------------
(* Bounds *)

NumTitles == 2        \* chapter titles the site can return
MaxCrashes == 1       \* process kills during fetch runs
LongLen == 11         \* chapters of the long story (chunk names reach two digits)
NumOthers == 1        \* other stories that can be tracked next to the story
MaxFile == 6          \* tokens of an archive file that was not written by a fetch run

-----------------------------------------------------------------------------
(* Tokens *)

NL   == <<"nl", 0>>
DASH == <<"dash", 0>>
DEAD == <<"dead", 0>>
DONE == <<"done", 0>>
Url(n)   == <<"url", n>>
Title(n) == <<"title", n>>
Word(n)  == <<"word", n>>

\* the chapter URLs the site can ever list, in chronological order
SiteOrder == <<Url(1), Url(2), Url(3)>>

\* the site: the title and the text each chapter page shows.  Titles repeat
\* after NumTitles chapters; the text of the first chapter holds a scene
\* break, a line that reads "---"
SiteTitle(u) == <<Title(((u[2] - 1) % NumTitles) + 1)>>
SiteContent(u) == IF u[2] = 1 THEN <<Word(1), NL, DASH, NL, Word(1)>> ELSE <<Word(u[2])>>

\* stories.json without a record of the story: no record of another story
\* either, and the file (if it is there) can be read
NoStory == [exists |-> FALSE, chunk_size |-> 0, last_chapter_count |-> 0,
            is_complete |-> FALSE, others |-> {}, readable |-> TRUE]

\* json.load, or {} "Starting fresh" when stories.json cannot be decoded
load_stories_db(file) == IF file.readable THEN file ELSE NoStory
NoFile  == <<<<<<"nofile", 0>>>>>>
ChunkSize == 2

Min(S) == CHOOSE x \in S : \A y \in S : x <= y

Range(s) == {s[k] : k \in 1..Len(s)}

URLs == Range(SiteOrder)

IsInjective(s) == \A a, b \in 1..Len(s) : s[a] = s[b] => a = b

IndexOf(s, x) == Min({k \in 1..Len(s) : s[k] = x})

-----------------------------------------------------------------------------
(* Archive file: _append_to_output_file, _parse_output_file, _build_final_file *)

\* f"\n--- {title} ---\n\n{content}\n"
Block(title, content) == <<NL, DASH>> \o title \o <<DASH, NL, NL>> \o content \o <<NL>>

\* str.strip() on a token sequence: drops leading and trailing line feeds
RECURSIVE Strip(_)
Strip(s) ==
    IF s = <<>> THEN <<>>
    ELSE IF Head(s) = NL THEN Strip(Tail(s))
    ELSE IF s[Len(s)] = NL THEN Strip(SubSeq(s, 1, Len(s) - 1))
    ELSE s

EmptyMap == [t \in {} |-> <<>>]

\* first k in from..Len(f) at which the file reads DASH NL NL (the "---\n\n" that ends a title line), or 0
HeaderEnd(f, from) ==
    LET S == {k \in from..(Len(f) - 2) : f[k] = DASH /\ f[k+1] = NL /\ f[k+2] = NL}
    IN IF S = {} THEN 0 ELSE Min(S)

\* first k in from..Len(f) where the lookahead (?=\n---|\Z) succeeds; Len(f)+1 is \Z
BodyEnd(f, from) ==
    LET S == {k \in from..(Len(f) - 1) : f[k] = NL /\ f[k+1] = DASH}
    IN IF S = {} THEN Len(f) + 1 ELSE Min(S)

\* a dict that keeps the text it already holds for a title and joins the new one to it
StoredJoined(chapters, title, text) ==
    IF title \in DOMAIN chapters
    THEN (title :> (chapters[title] \o <<NL>> \o text)) @@ chapters
    ELSE (title :> text) @@ chapters

\* chapters[title.strip()] = text.strip(): the text replaces what the dict held for the title
Stored(chapters, title, text) == (title :> text) @@ chapters

\* re.findall of ---\s*(.*?)\s*---\n\n(.*?)(?=\n---|\Z) from position i, filling the dict
RECURSIVE ParseFrom(_, _, _)
ParseFrom(f, i, chapters) ==
    LET S == {k \in i..Len(f) : f[k] = DASH}
    IN IF S = {} THEN chapters
       ELSE LET s == Min(S)
                e == HeaderEnd(f, s + 1)
            IN IF e = 0 THEN chapters
               ELSE LET q == BodyEnd(f, e + 3)
                        title == Strip(SubSeq(f, s + 1, e - 1))
                        text  == Strip(SubSeq(f, e + 3, q - 1))
                    IN ParseFrom(f, q, Stored(chapters, title, text))

\* a parser that takes a file without a chapter block for one untitled chapter
_parse_output_file_whole(f) ==
    IF ParseFrom(f, 1, EmptyMap) = EmptyMap /\ f # <<>>
    THEN (<<>> :> Strip(f)) ELSE ParseFrom(f, 1, EmptyMap)

_parse_output_file(f) == ParseFrom(f, 1, EmptyMap)

-----------------------------------------------------------------------------
(* Ledger lines: _parse_input_file, _update_input_file *)

IsUrlToken(t) == t[1] = "url"

\* "domain in url" for one of the known domains: the text holds the URL of a
\* page of a site with an adapter.  Url(0) is a page of another site
SupportedSite(url) == \E k \in 1..Len(url) : IsUrlToken(url[k]) /\ url[k][2] > 0

\* re.match(r"✔\s*(.*?)\s+(https?://\S+)", line): the line starts with the
\* check mark and a URL follows; the title is what stands before the first URL
Matches(line) == /\ Len(line) >= 2
                 /\ line[1] = DONE
                 /\ \E j \in 2..Len(line) : IsUrlToken(line[j])

FirstUrlPos(line) == Min({j \in 2..Len(line) : IsUrlToken(line[j])})

\* one entry (line_index, title_if_scraped, url); title <<>> stands for None
Entry(i, line) ==
    IF Matches(line)
    THEN [index |-> i, title |-> SubSeq(line, 2, FirstUrlPos(line) - 1),
          url |-> <<line[FirstUrlPos(line)]>>]
    ELSE [index |-> i, title |-> <<>>, url |-> line]

_parse_input_file(lines) == [i \in 1..Len(lines) |-> Entry(i, lines[i])]

\* a rewrite that takes the line out and puts the completed line at the end
_update_input_file_at_end(lines, index, title, url) ==
    SubSeq(lines, 1, index - 1) \o SubSeq(lines, index + 1, Len(lines))
        \o <<(<<DONE>> \o title \o url)>>

\* lines[index] = f"✔ {title} {url}\n", every other line written back as read
_update_input_file(lines, index, title, url) ==
    [lines EXCEPT ![index] = <<DONE>> \o title \o url]

\* [title for _, title, _ in _parse_input_file(input_filepath) if title]
RECURSIVE OrderedTitles(_)
OrderedTitles(entries) ==
    IF entries = <<>> THEN <<>>
    ELSE IF Head(entries).title # <<>>
         THEN <<Head(entries).title>> \o OrderedTitles(Tail(entries))
         ELSE OrderedTitles(Tail(entries))

\* the titles _build_final_file writes, in the order it writes them
RECURSIVE EmittedTitles(_, _)
EmittedTitles(titles, chapters) ==
    IF titles = <<>> THEN <<>>
    ELSE IF Head(titles) \in DOMAIN chapters
         THEN <<Head(titles)>> \o EmittedTitles(Tail(titles), chapters)
         ELSE EmittedTitles(Tail(titles), chapters)

RECURSIVE WriteBlocks(_, _)
WriteBlocks(titles, chapters) ==
    IF titles = <<>> THEN <<>>
    ELSE Block(Head(titles), chapters[Head(titles)]) \o WriteBlocks(Tail(titles), chapters)

\* a build that writes a word of its own in front of every chapter text
_build_final_file_stamped(all_chapters_data, lines) ==
    WriteBlocks(EmittedTitles(OrderedTitles(_parse_input_file(lines)), all_chapters_data),
                [t \in DOMAIN all_chapters_data |-> <<Word(0)>> \o all_chapters_data[t]])

_build_final_file(all_chapters_data, lines) ==
    WriteBlocks(EmittedTitles(OrderedTitles(_parse_input_file(lines)), all_chapters_data),
                all_chapters_data)

\* urls_to_scrape = [(index, url) for index, title, url in entries if not title]
RECURSIVE UrlsToScrape(_)
UrlsToScrape(entries) ==
    IF entries = <<>> THEN <<>>
    ELSE IF Head(entries).title = <<>>
         THEN <<[index |-> Head(entries).index, url |-> Head(entries).url]>>
              \o UrlsToScrape(Tail(entries))
         ELSE UrlsToScrape(Tail(entries))

-----------------------------------------------------------------------------
(* Link store: save_chunks, read_all_links_from_folder *)

Ceil(n, d) == (n + d - 1) \div d

MinOf(a, b) == IF a <= b THEN a ELSE b

\* a save that numbers every batch of files from 1
NewChunkFilesFromOne(urls, chunk_size, start_offset) ==
    {[first |-> i * chunk_size + 1,
      last  |-> MinOf(i * chunk_size + chunk_size, Len(urls)),
      urls  |-> SubSeq(urls, i * chunk_size + 1, MinOf(i * chunk_size + chunk_size, Len(urls)))]
     : i \in 0..(Ceil(Len(urls), chunk_size) - 1)}

\* the files save_chunks writes for urls, chunk_size, start_offset
NewChunkFiles(urls, chunk_size, start_offset) ==
    {[first |-> start_offset + i * chunk_size + 1,
      last  |-> start_offset + MinOf(i * chunk_size + chunk_size, Len(urls)),
      urls  |-> SubSeq(urls, i * chunk_size + 1, MinOf(i * chunk_size + chunk_size, Len(urls)))]
     : i \in 0..(Ceil(Len(urls), chunk_size) - 1)}

\* open(filename, "w") replaces a file of the same name
save_chunks(folder, urls, chunk_size, start_offset) ==
    IF urls = <<>> THEN folder
    ELSE LET written == NewChunkFiles(urls, chunk_size, start_offset)
             names   == {<<c.first, c.last>> : c \in written}
         IN {c \in folder : <<c.first, c.last>> \notin names} \cup written

\* f"{start_chap}": the decimal digits of a number, as they stand in a file name
RECURSIVE Digits(_)
Digits(n) == IF n < 10 THEN <<n>> ELSE Append(Digits(n \div 10), n % 10)

\* int(...) of a string of decimal digits
RECURSIVE ToInt(_)
ToInt(d) == IF Len(d) = 1 THEN d[1]
            ELSE 10 * ToInt(SubSeq(d, 1, Len(d) - 1)) + d[Len(d)]

\* the start number read back from a file name: int(re.search(r'(\d+)-\d+\.txt$', x).group(1))
StartKey(c) == ToInt(Digits(c.first))

\* string order of two digit strings that are followed by "-"
LexLeq(a, b) ==
    \/ a = b
    \/ \E k \in 1..(MinOf(Len(a), Len(b)) + 1) :
          /\ \A j \in 1..(k - 1) : a[j] = b[j]
          /\ \/ k > Len(a) /\ k <= Len(b)
             \/ k <= Len(a) /\ k <= Len(b) /\ a[k] < b[k]

\* file order by name, as plain sorted() gives it
ComesFirstByName(x, y) == LexLeq(Digits(x.first), Digits(y.first))

\* file order by the sort key: the start number as an integer
ComesFirst(x, y) == StartKey(x) <= StartKey(y)

\* the files of a set in ascending order of the start number of their name
RECURSIVE SortedByFirst(_)
SortedByFirst(files) ==
    IF files = {} THEN <<>>
    ELSE LET c == CHOOSE x \in files : \A y \in files : ComesFirst(x, y)
         IN <<c>> \o SortedByFirst(files \ {c})

RECURSIVE ConcatUrls(_)
ConcatUrls(fileSeq) ==
    IF fileSeq = <<>> THEN <<>> ELSE Head(fileSeq).urls \o ConcatUrls(Tail(fileSeq))

\* re.search(r'\d+-\d+\.txt$', f): the file name ends in start-end numbers.
\* A .txt file named otherwise carries 0-0 for a name in this model, which
\* save_chunks never writes
HasNumericName(c) == c.first > 0

\* the files the sort is given: the .txt files with a numeric name
read_all_links_from_folder(folder) ==
    ConcatUrls(SortedByFirst({c \in folder : HasNumericName(c)}))

-----------------------------------------------------------------------------
(* Reconciler: the diff, the dead-marking pass, the restore pass *)

RECURSIVE Filter(_, _)
Filter(s, keep) ==
    IF s = <<>> THEN <<>>
    ELSE IF Head(s) \in keep THEN <<Head(s)>> \o Filter(Tail(s), keep)
    ELSE Filter(Tail(s), keep)

\* insertion of x into a list sorted by key current_urls.index (stable: after equal keys)
RECURSIVE InsertByIndex(_, _, _)
InsertByIndex(sorted, x, current_urls) ==
    IF sorted = <<>> THEN <<x>>
    ELSE IF IndexOf(current_urls, x) < IndexOf(current_urls, Head(sorted))
         THEN <<x>> \o sorted
         ELSE <<Head(sorted)>> \o InsertByIndex(Tail(sorted), x, current_urls)

RECURSIVE SortedByIndex(_, _)
SortedByIndex(s, current_urls) ==
    IF s = <<>> THEN <<>>
    ELSE InsertByIndex(SortedByIndex(SubSeq(s, 1, Len(s) - 1), current_urls),
                       s[Len(s)], current_urls)

\* new links listed in the order of their names, not of the live list
NewUrlsByName(current_urls, existing_urls) ==
    Filter(SiteOrder, Range(current_urls) \ Range(existing_urls))

\* sorted([url for url in current_urls if url not in existing_set], key=current_urls.index)
NewUrls(current_urls, existing_urls) ==
    SortedByIndex(Filter(current_urls, Range(current_urls) \ Range(existing_urls)), current_urls)

\* list(existing_set - current_set); only membership and size are used
RemovedUrls(current_urls, existing_urls) == Range(existing_urls) \ Range(current_urls)

\* "removed in line": the URL occurs in the line
Contains(line, u) == \E k \in 1..Len(line) : line[k] = u

StartsDead(line) == Len(line) >= 1 /\ line[1] = DEAD

\* an earmarking pass that does not skip the lines already earmarked
MarkDeadAgain(lines, removed_urls) ==
    [i \in 1..Len(lines) |->
        IF \E r \in removed_urls : Contains(lines[i], r)
        THEN <<DEAD>> \o lines[i]
        ELSE lines[i]]

\* the rewrite of chapter_list.txt that earmarks the removed URLs
MarkDead(lines, removed_urls) ==
    [i \in 1..Len(lines) |->
        IF (\E r \in removed_urls : Contains(lines[i], r)) /\ ~StartsDead(lines[i])
        THEN <<DEAD>> \o lines[i]
        ELSE lines[i]]

\* line.strip().replace("[DEAD LINK] ", "")
RECURSIVE StripDead(_)
StripDead(line) ==
    IF line = <<>> THEN <<>>
    ELSE IF Head(line) = DEAD THEN StripDead(Tail(line))
    ELSE <<Head(line)>> \o StripDead(Tail(line))

\* dead_links, as the set of the strings in the list
DeadLinks(lines) == {StripDead(lines[i]) : i \in {k \in 1..Len(lines) : StartsDead(lines[k])}}

\* revived_links = [url for url in dead_links if url in live_urls]
RevivedLinks(lines, live_urls) == {d \in DeadLinks(lines) : \E u \in Range(live_urls) : d = <<u>>}

\* a restore that takes the revived lines out and appends them at the end
RECURSIVE KeepLines(_, _, _)
KeepLines(lines, revived_links, wanted) ==
    IF lines = <<>> THEN <<>>
    ELSE IF (StripDead(Head(lines)) \in revived_links) = wanted
         THEN <<IF wanted THEN StripDead(Head(lines)) ELSE Head(lines)>>
              \o KeepLines(Tail(lines), revived_links, wanted)
         ELSE KeepLines(Tail(lines), revived_links, wanted)

RestoreAtEnd(lines, revived_links) ==
    KeepLines(lines, revived_links, FALSE) \o KeepLines(lines, revived_links, TRUE)

\* updated_lines of check_for_revived_links
Restore(lines, revived_links) ==
    [i \in 1..Len(lines) |->
        IF StripDead(lines[i]) \in revived_links THEN StripDead(lines[i]) ELSE lines[i]]

\* the lines a chunk file contributes to chapter_list.txt: one bare URL per line
RECURSIVE AsLines(_)
AsLines(urls) == IF urls = <<>> THEN <<>> ELSE <<<<Head(urls)>>>> \o AsLines(Tail(urls))

-----------------------------------------------------------------------------
(* State *)

\* what the adapter's get_links can return once normalised: a duplicate-free
\* list of URLs; the empty list is also what get_all_chapter_links returns
\* when the adapter raises
LiveLists == {l \in UNION {[1..n -> URLs] : n \in 0..Len(SiteOrder)} : IsInjective(l)}

NoEntry == [index |-> 0, url |-> <<>>]

HistBase ==
    [op |-> "none", live |-> <<>>, known |-> <<>>, new |-> <<>>, removed |-> {},
     revived |-> {}, before |-> <<>>, line |-> <<>>, refetch |-> FALSE,
     written |-> <<>>, store |-> {}, registry |-> NoStory, tracked |-> {},
     n |-> 0, timeout |-> 0, slept |-> <<>>, after |-> FALSE, at |-> "idle",
     failed |-> <<>>, story |-> 0, listed |-> <<>>, flag |-> "absent"]

\* check_for_updates is not applying a diff
NoUpdate == [live |-> <<>>, known |-> <<>>, new |-> <<>>, removed |-> {},
             earmark |-> FALSE, lines |-> <<>>, i |-> 0]

\* _build_final_file is not writing: no dict in hand, no title written
NoBuild == [chapters |-> EmptyMap, titles |-> <<>>, i |-> 0, next |-> "idle"]

\* assemble_chapter_list is not appending: no file in hand
NoMerge == [new_files |-> <<>>, i |-> 0]

\* no diff has been applied step by step: nothing to compare the files with
NoDiff == [none |-> <<>>, all |-> <<>>]

\* what a fetch run remembers of itself, for the claims about a whole run
RunBase == [start |-> <<>>, attempted |-> {}, third |-> {}, exhausted |-> {},
            done |-> {}, order |-> <<>>]

Init ==
    /\ db = NoStory
    /\ chunks = {}
    /\ tracker = {}
    /\ ledger = NoFile
    /\ archive = <<>>
    /\ failedFile = <<>>
    /\ pc = "idle"
    /\ todo = <<>>
    /\ pos = 0
    /\ attempt = 0
    /\ cur = [title |-> <<>>, content |-> <<>>]
    /\ failed_urls = <<>>
    /\ scraped = FALSE
    /\ upd = NoUpdate
    /\ build = NoBuild
    /\ merge = NoMerge
    /\ hist = [last |-> HistBase, run |-> RunBase, fetched |-> {}, crashes |-> 0,
               blocks |-> <<>>, discovered |-> <<>>, diff |-> NoDiff,
               browser |-> "closed", created |-> {}]

Idle == /\ pc' = "idle"
        /\ todo' = <<>>
        /\ pos' = 0
        /\ attempt' = 0
        /\ cur' = [title |-> <<>>, content |-> <<>>]
        /\ failed_urls' = <<>>
        /\ scraped' = FALSE
        /\ upd' = NoUpdate
        /\ build' = NoBuild
        /\ merge' = NoMerge

Locals == <<pc, todo, pos, attempt, cur, failed_urls, scraped, upd, build, merge>>

Note(rec) == hist' = [hist EXCEPT !.last = rec, !.run = RunBase]

\* a crawl that closes its browser only when get_links returns
SessionAfterCrawlWithoutFinally(raised) == IF raised THEN "open" ELSE "closed"

\* get_all_chapter_links: the browser launched for the crawl when the function
\* returns, from the try (get_links returned) or from the except (it raised):
\* "finally: browser.close()" runs on both
SessionAfterCrawl(raised) == "closed"

\* the record of a handler that crawled; the empty live list is what the
\* crawl returns from its except clause
NoteCrawl(rec, urls) ==
    hist' = [hist EXCEPT !.last = rec, !.run = RunBase,
                         !.browser = SessionAfterCrawl(urls = <<>>)]

-----------------------------------------------------------------------------
(* link_manager.py *)

\* a check that takes the empty list for a live set
RetrievedAlways(urls) == TRUE

\* "if not current_urls" / "if not live_urls": the adapter returned a live set
Retrieved(urls) == urls # <<>>

\* an apply decision that does not wait for the answer
AppliedUnasked(retrieved, found, answer) == retrieved /\ found

\* the side effects are reached: the live set came, something was found,
\* and the answer to the prompt was y or yes
Applied(retrieved, found, answer) == retrieved /\ found /\ answer

\* the record of a check that wrote nothing: the files as it found them
Untouched(op) ==
    [HistBase EXCEPT !.op = op, !.before = ledger, !.store = chunks, !.registry = db]

\* scrape_new_story_links for a story URL that no adapter's domain is part
\* of: "Invalid or unsupported URL", return
RejectStoryUrl(story_url) ==
    /\ pc = "idle"
    /\ ~SupportedSite(story_url)
    /\ Note(Untouched("unsupported_url"))
    /\ UNCHANGED <<db, chunks, tracker, ledger, archive, failedFile, Locals>>

\* the project folders: 0 is the story, the others are numbered from 1
OtherStories == 1..NumOthers

\* db[project_folder] = {...} for another story, after its crawl found links
Registered(loaded, name) ==
    [loaded EXCEPT !.others = {o \in @ : o.name # name}
                                  \cup {[name |-> name, is_complete |-> FALSE]}]

\* scrape_new_story_links for another story, into a project folder of its
\* own: its chunk files are not the story's; the registry is loaded, given
\* the record and saved
ScrapeAnotherStory(name) ==
    /\ pc = "idle"
    /\ db' = Registered(load_stories_db(db), name)
    /\ hist' = [hist EXCEPT !.last = [HistBase EXCEPT !.op = "scrape_another_story",
                                                      !.registry = db, !.story = name],
                            !.run = RunBase, !.created = @ \cup {name}]
    /\ UNCHANGED <<chunks, tracker, ledger, archive, failedFile, Locals>>

\* a toggle that saves the chosen record alone
ToggledAlone(loaded, name) ==
    IF name = 0 THEN [loaded EXCEPT !.is_complete = ~@, !.others = {}]
    ELSE [loaded EXCEPT !.others = {[o EXCEPT !.is_complete = ~@] :
                                        o \in {x \in @ : x.name = name}}]

\* db[story_name]['is_complete'] = not db[story_name].get('is_complete', False)
Toggled(loaded, name) ==
    IF name = 0 THEN [loaded EXCEPT !.is_complete = ~@]
    ELSE [loaded EXCEPT !.others = {IF o.name = name THEN [o EXCEPT !.is_complete = ~@]
                                    ELSE o : o \in @}]

\* manage_stories: one story of the list is chosen, toggled and saved
ToggleStory(name) ==
    /\ pc = "idle"
    /\ \/ name = 0 /\ load_stories_db(db).exists
       \/ name \in {o.name : o \in load_stories_db(db).others}
    /\ db' = Toggled(load_stories_db(db), name)
    /\ Note([HistBase EXCEPT !.op = "toggled", !.registry = db, !.story = name])
    /\ UNCHANGED <<chunks, tracker, ledger, archive, failedFile, Locals>>

\* stories.json is left in a state json.load cannot decode (cut short or
\* emptied outside the handlers)
DamageRegistry ==
    /\ pc = "idle"
    /\ db.readable
    /\ db.exists \/ db.others # {}
    /\ db' = [db EXCEPT !.readable = FALSE]
    /\ Note([HistBase EXCEPT !.op = "registry_damaged", !.registry = db])
    /\ UNCHANGED <<chunks, tracker, ledger, archive, failedFile, Locals>>

\* scrape_new_story_links: the first crawl of the story
ScrapeNewStoryLinks(urls) ==
    /\ pc = "idle"
    /\ ~load_stories_db(db).exists
    /\ urls # <<>>
    /\ chunks' = save_chunks(chunks, urls, ChunkSize, 0)
    /\ db' = [exists |-> TRUE, chunk_size |-> ChunkSize,
              last_chapter_count |-> Len(urls), is_complete |-> FALSE,
              others |-> load_stories_db(db).others, readable |-> TRUE]
    /\ hist' = [hist EXCEPT !.last = [HistBase EXCEPT !.op = "scrape_new_story_links",
                                                      !.live = urls],
                            !.run = RunBase, !.discovered = urls,
                            !.browser = SessionAfterCrawl(urls = <<>>),
                            !.created = @ \cup {0}]
    /\ UNCHANGED <<tracker, ledger, archive, failedFile, Locals>>

\* list.reverse()
Reverse(s) == [k \in 1..Len(s) |-> s[Len(s) + 1 - k]]

\* what an adapter module can say of its list: REVERSE_CHAPTERS = True,
\* REVERSE_CHAPTERS = False, or no such attribute
Flags == {"true", "false", "absent"}

\* a crawl that reverses whatever list it is given
get_all_chapter_links_reversed(listed, flag) == Reverse(listed)

\* get_all_chapter_links, from the list get_links returned: reversed if the
\* adapter has the attribute REVERSE_CHAPTERS and it is true
get_all_chapter_links(listed, flag) ==
    IF flag # "absent" /\ flag = "true" THEN Reverse(listed) ELSE listed

\* scrape_new_story_links, from what the adapter of the story's site returns
\* for the story page and says of its order
DiscoverNewStory(listed, flag) ==
    /\ pc = "idle"
    /\ ~load_stories_db(db).exists
    /\ \E urls \in {get_all_chapter_links(listed, flag)} :
          /\ urls # <<>>
          /\ chunks' = save_chunks(chunks, urls, ChunkSize, 0)
          /\ db' = [exists |-> TRUE, chunk_size |-> ChunkSize,
                    last_chapter_count |-> Len(urls), is_complete |-> FALSE,
                    others |-> load_stories_db(db).others, readable |-> TRUE]
          /\ hist' = [hist EXCEPT
                        !.last = [HistBase EXCEPT !.op = "scrape_new_story_links",
                                                  !.live = urls, !.listed = listed,
                                                  !.flag = flag],
                        !.run = RunBase, !.discovered = urls,
                        !.browser = SessionAfterCrawl(urls = <<>>),
                        !.created = @ \cup {0}]
    /\ UNCHANGED <<tracker, ledger, archive, failedFile, Locals>>

\* check_for_updates for the story; update and earmark are the two answers
CheckForUpdates(current_urls, update, earmark) ==
    /\ pc = "idle"
    /\ load_stories_db(db).exists
    /\ ~db.is_complete
    /\ \E existing_urls \in {read_all_links_from_folder(chunks)} :
       \E new_urls \in {NewUrls(current_urls, existing_urls)} :
       \E removed_urls \in {RemovedUrls(current_urls, existing_urls)} :
       LET changes       == new_urls # <<>> \/ removed_urls # {}
           apply         == Applied(Retrieved(current_urls), changes, update)
       IN /\ ledger' = IF apply /\ removed_urls # {} /\ earmark /\ ledger # NoFile
                       THEN MarkDead(ledger, removed_urls) ELSE ledger
          /\ chunks' = IF apply
                       THEN save_chunks(chunks, new_urls, db.chunk_size, Len(existing_urls))
                       ELSE chunks
          /\ db' = IF apply THEN [db EXCEPT !.last_chapter_count = Len(current_urls)] ELSE db
          /\ IF ~Retrieved(current_urls)
             THEN NoteCrawl(Untouched("retrieval_failed"), current_urls)
             ELSE IF ~changes THEN UNCHANGED hist
             ELSE IF ~update THEN NoteCrawl(Untouched("update_declined"), current_urls)
             ELSE hist' = [hist EXCEPT
                          !.last = [HistBase EXCEPT
                              !.op = IF removed_urls # {} /\ earmark /\ ledger # NoFile
                                     THEN "marked" ELSE "updated",
                              !.live = current_urls, !.known = existing_urls,
                              !.new = new_urls, !.removed = removed_urls,
                              !.before = ledger],
                          !.run = RunBase,
                          !.discovered = @ \o new_urls,
                          !.browser = SessionAfterCrawl(current_urls = <<>>)]
    /\ UNCHANGED <<tracker, archive, failedFile, Locals>>

\* check_for_revived_links for the story; restore is the answer
CheckForRevivedLinks(live_urls, restore) ==
    /\ pc = "idle"
    /\ load_stories_db(db).exists
    /\ ledger # NoFile
    /\ DeadLinks(ledger) # {}
    /\ \E revived_links \in {RevivedLinks(ledger, live_urls)} :
       LET apply == Applied(Retrieved(live_urls), revived_links # {}, restore)
       IN /\ ledger' = IF apply THEN Restore(ledger, revived_links) ELSE ledger
          /\ IF ~Retrieved(live_urls)
             THEN NoteCrawl(Untouched("retrieval_failed"), live_urls)
             ELSE IF revived_links = {} THEN UNCHANGED hist
             ELSE IF ~restore THEN NoteCrawl(Untouched("restore_declined"), live_urls)
             ELSE NoteCrawl([HistBase EXCEPT !.op = "restored", !.live = live_urls,
                                             !.revived = revived_links,
                                             !.before = ledger], live_urls)
    /\ UNCHANGED <<db, chunks, tracker, archive, failedFile, Locals>>

-----------------------------------------------------------------------------
(* check_for_updates step by step: the three writes of an applied diff, and
   the rewrite of chapter_list.txt line by line *)

\* the earmarking prompt is reached and answered yes, and chapter_list.txt exists
Earmarks(removed_urls, earmark, lines) == removed_urls # {} /\ earmark /\ lines # NoFile

\* the step that follows the (possible) rewrite of chapter_list.txt
AfterMark(new_urls) == IF new_urls # <<>> THEN "upd_chunks" ELSE "upd_db"

\* the diff is computed and the update prompt answered yes: nothing written yet
BeginUpdate(current_urls, update, earmark) ==
    /\ pc = "idle"
    /\ load_stories_db(db).exists
    /\ ~db.is_complete
    /\ \E existing_urls \in {read_all_links_from_folder(chunks)} :
       \E new_urls \in {NewUrls(current_urls, existing_urls)} :
       \E removed_urls \in {RemovedUrls(current_urls, existing_urls)} :
          /\ Applied(Retrieved(current_urls), new_urls # <<>> \/ removed_urls # {}, update)
          /\ upd' = [NoUpdate EXCEPT !.live = current_urls, !.known = existing_urls,
                                     !.new = new_urls, !.removed = removed_urls,
                                     !.earmark = earmark]
          /\ pc' = IF Earmarks(removed_urls, earmark, ledger)
                   THEN "upd_truncate" ELSE AfterMark(new_urls)
          /\ hist' = [hist EXCEPT
                        !.last = [HistBase EXCEPT !.op = "applying", !.before = ledger],
                        !.run = RunBase,
                        !.diff = [none |-> <<ledger, chunks, db>>,
                                  all  |-> <<IF Earmarks(removed_urls, earmark, ledger)
                                             THEN MarkDead(ledger, removed_urls) ELSE ledger,
                                             save_chunks(chunks, new_urls, db.chunk_size,
                                                         Len(existing_urls)),
                                             [db EXCEPT !.last_chapter_count =
                                                            Len(current_urls)]>>]]
    /\ UNCHANGED <<db, chunks, tracker, ledger, archive, failedFile, todo, pos, attempt,
                   cur, failed_urls, scraped, build, merge>>

\* lines = f.readlines(); f.seek(0); f.truncate(): the file on disk is empty
TruncateLedger ==
    /\ pc = "upd_truncate"
    /\ upd' = [upd EXCEPT !.lines = ledger, !.i = 0]
    /\ ledger' = <<>>
    /\ pc' = IF ledger = <<>> THEN AfterMark(upd.new) ELSE "upd_write"
    /\ hist' = [hist EXCEPT !.last = [HistBase EXCEPT !.op = "truncated"]]
    /\ UNCHANGED <<db, chunks, tracker, archive, failedFile, todo, pos, attempt, cur,
                   failed_urls, scraped, build, merge>>

\* one line of the loop reaches the file; after the last one the file is closed
WriteLine ==
    /\ pc = "upd_write"
    /\ ledger' = Append(ledger, MarkDead(upd.lines, upd.removed)[upd.i + 1])
    /\ upd' = [upd EXCEPT !.i = @ + 1]
    /\ pc' = IF upd.i + 1 = Len(upd.lines) THEN AfterMark(upd.new) ELSE "upd_write"
    /\ hist' = [hist EXCEPT !.last = [HistBase EXCEPT !.op = "line_written"]]
    /\ UNCHANGED <<db, chunks, tracker, archive, failedFile, todo, pos, attempt, cur,
                   failed_urls, scraped, build, merge>>

\* save_chunks(new_urls, ..., start_offset=len(existing_urls))
SaveChunks ==
    /\ pc = "upd_chunks"
    /\ chunks' = save_chunks(chunks, upd.new, db.chunk_size, Len(upd.known))
    /\ pc' = "upd_db"
    /\ hist' = [hist EXCEPT !.last = [HistBase EXCEPT !.op = "chunks_saved"]]
    /\ UNCHANGED <<db, tracker, ledger, archive, failedFile, todo, pos, attempt, cur,
                   failed_urls, scraped, upd, build, merge>>

\* db[name]['last_chapter_count'] = len(current_urls); save_stories_db(db)
SaveRegistry ==
    /\ pc = "upd_db"
    /\ db' = [db EXCEPT !.last_chapter_count = Len(upd.live)]
    /\ Idle
    /\ hist' = [hist EXCEPT
                  !.last = [HistBase EXCEPT
                      !.op = IF Earmarks(upd.removed, upd.earmark, ledger)
                             THEN "marked" ELSE "updated",
                      !.live = upd.live, !.known = upd.known, !.new = upd.new,
                      !.removed = upd.removed, !.before = hist.diff.none[1]],
                  !.run = RunBase,
                  !.discovered = @ \o upd.new]
    /\ UNCHANGED <<chunks, tracker, ledger, archive, failedFile>>

-----------------------------------------------------------------------------
(* Web-Novel-Scraper-Suite.py: the chunk merge *)

\* new_files: the link files not in processed_files, sorted by start number
NewFiles(folder, processed_files) ==
    SortedByFirst({c \in folder : /\ HasNumericName(c)
                                  /\ <<c.first, c.last>> \notin processed_files})

\* chapter_list.txt after the append of the new files (opened "a": created if absent)
MergedLedger(lines, folder, processed_files) ==
    IF NewFiles(folder, processed_files) = <<>> THEN lines
    ELSE (IF lines = NoFile THEN <<>> ELSE lines)
            \o AsLines(ConcatUrls(NewFiles(folder, processed_files)))

\* a merge that does not write the tracker back
MergedTrackerForgets(folder, processed_files) == processed_files

\* _added_links_tracker.json after the merge: every appended file name is added
MergedTracker(folder, processed_files) ==
    processed_files \cup {<<c.first, c.last>> : c \in Range(NewFiles(folder, processed_files))}

\* assemble_chapter_list, answered yes: appends the chunk files not yet in the tracker
AssembleChapterList ==
    /\ pc = "idle"
    /\ load_stories_db(db).exists
    /\ NewFiles(chunks, tracker) # <<>>
    /\ ledger' = MergedLedger(ledger, chunks, tracker)
    /\ tracker' = MergedTracker(chunks, tracker)
    /\ Note([HistBase EXCEPT !.op = "assembled", !.before = ledger, !.tracked = tracker])
    /\ UNCHANGED <<db, chunks, archive, failedFile, Locals>>

-----------------------------------------------------------------------------
(* modules/content_manager.py: scrape_story_content *)

\* page.goto(url) can load only a string that is one URL; for any other
\* string it raises and _scrape_chapter_content_internal returns (None, None, None)
Navigable(url) == Len(url) = 1 /\ IsUrlToken(url[1])

\* the rebuild and what it emitted, for the record of the last handler
BuiltRecord(chapters, lines) ==
    [HistBase EXCEPT !.op = "built", !.before = lines,
        !.written = EmittedTitles(OrderedTitles(_parse_input_file(lines)), chapters)]

\* the (title, text) pairs of the blocks the rebuild leaves in the file
BuiltBlocks(chapters, lines) ==
    LET written == EmittedTitles(OrderedTitles(_parse_input_file(lines)), chapters)
    IN [k \in 1..Len(written) |-> [title |-> written[k], content |-> chapters[written[k]]]]

\* a loop that takes the pending entries from the last one to the first
LoopOrderBackwards(urls_to_scrape) ==
    [k \in 1..Len(urls_to_scrape) |-> urls_to_scrape[Len(urls_to_scrape) + 1 - k]]

\* "for i, (index, url) in enumerate(urls_to_scrape)": the list as it was built
LoopOrder(urls_to_scrape) == urls_to_scrape

\* the ledger positions the loop has made an attempt for, in the order in
\* which it came to them; a position it comes back to is listed again
Visited(order, index) ==
    IF order # <<>> /\ order[Len(order)] = index THEN order ELSE Append(order, index)

\* the handler up to the loop: nothing to scrape (final order check) or the first attempt
StartScrape ==
    /\ pc = "idle"
    /\ load_stories_db(db).exists
    /\ ledger # NoFile
    /\ \E urls_to_scrape \in {UrlsToScrape(_parse_input_file(ledger))} :
       \E all_chapters \in {_parse_output_file(archive)} :
          IF urls_to_scrape = <<>>
          THEN /\ archive' = IF DOMAIN all_chapters # {}
                             THEN _build_final_file(all_chapters, ledger) ELSE archive
               /\ hist' = [hist EXCEPT !.run = RunBase,
                              !.last = IF DOMAIN all_chapters # {}
                                       THEN BuiltRecord(all_chapters, ledger)
                                       ELSE [HistBase EXCEPT !.op = "nothing_to_scrape"],
                              !.blocks = IF DOMAIN all_chapters # {}
                                         THEN BuiltBlocks(all_chapters, ledger) ELSE @]
               /\ UNCHANGED Locals
          ELSE /\ pc' = "attempt"
               /\ todo' = LoopOrder(urls_to_scrape)
               /\ pos' = 1
               /\ attempt' = 0
               /\ failed_urls' = <<>>
               /\ scraped' = FALSE
               /\ hist' = [hist EXCEPT !.run = [RunBase EXCEPT !.start = ledger],
                                       !.last = [HistBase EXCEPT !.op = "started"],
                                       !.browser = "open"]
               /\ UNCHANGED <<archive, cur, upd, build, merge>>
    /\ UNCHANGED <<db, chunks, tracker, ledger, failedFile>>

\* a fetch loop that gives every attempt the same time
TimeoutFlat(k) == 20000

\* timeout = (attempt + 1) * 20000, in milliseconds, for attempt k of range(3)
Timeout(k) == (k + 1) * 20000

\* delay = 2 before the first attempt, delay *= 2 after every sleep: the
\* seconds slept after the failure of attempt 0, 1, 2
Delay(k) == 2 * (2 ^ k)

\* the sleeps of the URL in hand, the one after this failed attempt included
Slept(k) ==
    (IF k = 0 THEN <<>> ELSE hist.last.slept) \o <<Delay(k)>>

\* the next URL of the for loop, or browser.close() after the last one
Advance ==
    IF pos < Len(todo)
    THEN pos' = pos + 1 /\ attempt' = 0 /\ pc' = "attempt"
    ELSE pos' = pos /\ attempt' = 0 /\ pc' = "loopdone"

\* browser.close() follows the last URL of the loop
AfterLoop(browser) == IF pc' = "loopdone" THEN "closed" ELSE browser

\* a fetch loop that records a URL as failed at every failed attempt
AttemptFailRecordsEveryFailure ==
    /\ pc = "attempt"
    /\ failed_urls' = Append(failed_urls, todo[pos].url)
    /\ IF attempt < 2
       THEN /\ attempt' = attempt + 1
            /\ UNCHANGED <<pc, pos>>
       ELSE Advance
    /\ hist' = [hist EXCEPT
                  !.last = [HistBase EXCEPT !.op = "fetch_failed",
                                            !.line = ledger[todo[pos].index],
                                            !.n = attempt + 1,
                                            !.timeout = Timeout(attempt),
                                            !.slept = Slept(attempt),
                                            !.after = pos \in hist.run.done],
                  !.run.attempted = @ \cup {pos},
                  !.run.order = Visited(@, todo[pos].index),
                  !.run.exhausted = IF attempt < 2 THEN @ ELSE @ \cup {pos},
                  !.browser = AfterLoop(@)]
    /\ UNCHANGED <<db, chunks, tracker, ledger, archive, failedFile, todo, cur, scraped,
                   upd, build, merge>>

\* a fetch loop that stops at the first URL that exhausts its retries
AttemptFailAborts ==
    /\ pc = "attempt"
    /\ IF attempt < 2
       THEN /\ attempt' = attempt + 1
            /\ UNCHANGED <<pc, pos, failed_urls>>
       ELSE /\ failed_urls' = Append(failed_urls, todo[pos].url)
            /\ pos' = pos /\ attempt' = 0 /\ pc' = "loopdone"
    /\ hist' = [hist EXCEPT
                  !.last = [HistBase EXCEPT !.op = "fetch_failed",
                                            !.line = ledger[todo[pos].index],
                                            !.n = attempt + 1,
                                            !.timeout = Timeout(attempt),
                                            !.slept = Slept(attempt),
                                            !.after = pos \in hist.run.done],
                  !.run.attempted = @ \cup {pos},
                  !.run.order = Visited(@, todo[pos].index),
                  !.run.exhausted = IF attempt < 2 THEN @ ELSE @ \cup {pos},
                  !.browser = AfterLoop(@)]
    /\ UNCHANGED <<db, chunks, tracker, ledger, archive, failedFile, todo, cur, scraped,
                   upd, build, merge>>

\* a fetch loop that never gives a URL up: after the third failure it tries again
AttemptFailKeepsTrying ==
    /\ pc = "attempt"
    /\ attempt' = IF attempt < 2 THEN attempt + 1 ELSE attempt
    /\ hist' = [hist EXCEPT
                  !.last = [HistBase EXCEPT !.op = "fetch_failed",
                                            !.line = ledger[todo[pos].index],
                                            !.n = attempt + 1,
                                            !.timeout = Timeout(attempt),
                                            !.slept = IF attempt < 2 THEN Slept(attempt)
                                                      ELSE hist.last.slept,
                                            !.after = pos \in hist.run.done],
                  !.run.attempted = @ \cup {pos},
                  !.run.order = Visited(@, todo[pos].index)]
    /\ UNCHANGED <<db, chunks, tracker, ledger, archive, failedFile, pc, todo, pos, cur,
                   failed_urls, scraped, upd, build, merge>>

\* one attempt that returns no title or no content
AttemptFail ==
    /\ pc = "attempt"
    /\ IF attempt < 2
       THEN /\ attempt' = attempt + 1
            /\ UNCHANGED <<pc, pos, failed_urls>>
       ELSE /\ failed_urls' = Append(failed_urls, todo[pos].url)
            /\ Advance
    /\ hist' = [hist EXCEPT
                  !.last = [HistBase EXCEPT !.op = "fetch_failed",
                                            !.line = ledger[todo[pos].index],
                                            !.n = attempt + 1,
                                            !.timeout = Timeout(attempt),
                                            !.slept = Slept(attempt),
                                            !.after = pos \in hist.run.done],
                  !.run.attempted = @ \cup {pos},
                  !.run.order = Visited(@, todo[pos].index),
                  !.run.exhausted = IF attempt < 2 THEN @ ELSE @ \cup {pos},
                  !.browser = AfterLoop(@)]
    /\ UNCHANGED <<db, chunks, tracker, ledger, archive, failedFile, todo, cur, scraped,
                   upd, build, merge>>

\* one attempt that returns (title, content): the block is appended at once
AttemptSuccess(title, content) ==
    /\ pc = "attempt"
    /\ SupportedSite(todo[pos].url)
    /\ Navigable(todo[pos].url)
    /\ title = SiteTitle(todo[pos].url[1])
    /\ content = SiteContent(todo[pos].url[1])
    /\ archive' = archive \o Block(title, content)
    /\ cur' = [title |-> title, content |-> content]
    /\ pc' = "appended"
    /\ hist' = [hist EXCEPT
                  !.last = [HistBase EXCEPT !.op = "fetched",
                                            !.line = ledger[todo[pos].index],
                                            !.refetch = todo[pos].url \in hist.fetched,
                                            !.n = attempt + 1,
                                            !.timeout = Timeout(attempt),
                                            !.after = pos \in hist.run.done],
                  !.run.done = @ \cup {pos},
                  !.fetched = @ \cup {todo[pos].url},
                  !.blocks = Append(@, [title |-> title, content |-> content]),
                  !.run.attempted = @ \cup {pos},
                  !.run.order = Visited(@, todo[pos].index),
                  !.run.third = IF attempt = 2 THEN @ \cup {pos} ELSE @]
    /\ UNCHANGED <<db, chunks, tracker, ledger, failedFile, todo, pos, attempt,
                   failed_urls, scraped, upd, build, merge>>

\* _update_input_file for the chapter just appended, then break
UpdateLedger ==
    /\ pc = "appended"
    /\ ledger' = _update_input_file(ledger, todo[pos].index, cur.title, todo[pos].url)
    /\ scraped' = TRUE
    /\ cur' = [title |-> <<>>, content |-> <<>>]
    /\ Advance
    /\ hist' = [hist EXCEPT !.last = [HistBase EXCEPT !.op = "marked_completed",
                                                      !.before = ledger],
                            !.browser = AfterLoop(@)]
    /\ UNCHANGED <<db, chunks, tracker, archive, failedFile, todo, failed_urls, upd, build, merge>>

\* after the loop: re-order the archive if something new was scraped
Rebuild ==
    /\ pc = "loopdone"
    /\ \E all_chapters \in {_parse_output_file(archive)} :
          /\ archive' = IF scraped THEN _build_final_file(all_chapters, ledger) ELSE archive
          /\ hist' = [hist EXCEPT !.last = IF scraped THEN BuiltRecord(all_chapters, ledger)
                                           ELSE [HistBase EXCEPT !.op = "not_built"],
                                  !.blocks = IF scraped THEN BuiltBlocks(all_chapters, ledger)
                                             ELSE @]
    /\ pc' = "summary"
    /\ UNCHANGED <<db, chunks, tracker, ledger, failedFile, todo, pos, attempt, cur,
                   failed_urls, scraped, upd, build, merge>>

\* the summary: failed_chapters.txt is written when a URL failed
Summary ==
    /\ pc = "summary"
    /\ failedFile' = IF failed_urls # <<>> THEN failed_urls ELSE failedFile
    /\ Idle
    /\ hist' = [hist EXCEPT !.last = [HistBase EXCEPT !.op = "finished",
                                                      !.failed = failed_urls],
                            !.run = RunBase]
    /\ UNCHANGED <<db, chunks, tracker, ledger, archive>>

\* the process is killed inside a handler: the files stay, the memory is lost
Kill ==
    /\ pc # "idle"
    /\ hist.crashes < MaxCrashes
    /\ Idle
    /\ hist' = [hist EXCEPT !.last = [HistBase EXCEPT !.op = "killed", !.at = pc],
                            !.run = RunBase, !.crashes = @ + 1,
                            !.browser = "closed"]
    /\ UNCHANGED <<db, chunks, tracker, ledger, archive, failedFile>>

\* a fetch run that holds the browser without a with statement
SessionAfterWithNoExit(browser) == browser

\* "with sync_playwright() as p:" is left by an exception: its exit stops
\* Playwright, and the browser it launched goes down with it
SessionAfterWith(browser) == "closed"

\* an exception raised inside the loop, outside _scrape_chapter_content_internal
\* (append or ledger write fails, the sleep is interrupted): browser.close()
\* is skipped, the with block is left and the handler is abandoned
Raise ==
    /\ pc \in {"attempt", "appended"}
    /\ hist.crashes < MaxCrashes
    /\ Idle
    /\ hist' = [hist EXCEPT !.last = [HistBase EXCEPT !.op = "raised", !.at = pc],
                            !.run = RunBase, !.crashes = @ + 1,
                            !.browser = SessionAfterWith(@)]
    /\ UNCHANGED <<db, chunks, tracker, ledger, archive, failedFile>>

-----------------------------------------------------------------------------

(* The story's links: first crawl, update checks, revival checks, chunk merge *)

NextLinks ==
    \/ \E urls \in LiveLists : ScrapeNewStoryLinks(urls)
    \/ \E urls \in LiveLists, update \in BOOLEAN, earmark \in BOOLEAN :
          CheckForUpdates(urls, update, earmark)
    \/ \E urls \in LiveLists, restore \in BOOLEAN : CheckForRevivedLinks(urls, restore)
    \/ AssembleChapterList

SpecLinks == Init /\ [][NextLinks]_vars

-----------------------------------------------------------------------------
(* A long story followed while its last chapters come out one after the
   other: the live list is always a beginning of the site's list.  First
   crawl, update checks and chunk merges, with chunk file names that reach
   two digits *)

LongOrder == [k \in 1..LongLen |-> Url(k)]

LongLists == {SubSeq(LongOrder, 1, n) : n \in (LongLen - Len(SiteOrder))..LongLen}

NextMerge ==
    \/ \E urls \in LongLists : ScrapeNewStoryLinks(urls)
    \/ \E urls \in LongLists, update \in BOOLEAN : CheckForUpdates(urls, update, FALSE)
    \/ AssembleChapterList

SpecMerge == Init /\ [][NextMerge]_vars

-----------------------------------------------------------------------------
(* The long story again, with a link file in its links folder that the suite
   did not write: a .txt file whose name holds no start-end numbers *)

StrayFile == [first |-> 0, last |-> 0, urls |-> <<Url(0)>>]

InitStray ==
    /\ db = NoStory
    /\ chunks = {StrayFile}
    /\ tracker = {}
    /\ ledger = NoFile
    /\ archive = <<>>
    /\ failedFile = <<>>
    /\ pc = "idle"
    /\ todo = <<>>
    /\ pos = 0
    /\ attempt = 0
    /\ cur = [title |-> <<>>, content |-> <<>>]
    /\ failed_urls = <<>>
    /\ scraped = FALSE
    /\ upd = NoUpdate
    /\ build = NoBuild
    /\ merge = NoMerge
    /\ hist = [last |-> HistBase, run |-> RunBase, fetched |-> {}, crashes |-> 0,
               blocks |-> <<>>, discovered |-> <<>>, diff |-> NoDiff,
               browser |-> "closed", created |-> {}]

NextStray ==
    \/ \E urls \in LongLists : ScrapeNewStoryLinks(urls)
    \/ \E urls \in LongLists, update \in BOOLEAN : CheckForUpdates(urls, update, FALSE)
    \/ AssembleChapterList

SpecStray == InitStray /\ [][NextStray]_vars

-----------------------------------------------------------------------------
(* The story's content between update checks: fetch runs without kills,
   update checks and revival checks, from the state in which the whole
   chapter list of the site has been crawled and merged into chapter_list.txt *)

\* the site's list after chapters were taken down: the sublists of SiteOrder
SiteLists == {Filter(SiteOrder, S) : S \in SUBSET URLs}

\* the state after the first crawl found the links known and the merge ran
CrawledAs(known) ==
    /\ db = [exists |-> TRUE, chunk_size |-> ChunkSize,
             last_chapter_count |-> Len(known), is_complete |-> FALSE,
             others |-> {}, readable |-> TRUE]
    /\ chunks = save_chunks({}, known, ChunkSize, 0)
    /\ tracker = {<<c.first, c.last>> : c \in chunks}
    /\ archive = <<>>
    /\ failedFile = <<>>
    /\ pc = "idle"
    /\ todo = <<>>
    /\ pos = 0
    /\ attempt = 0
    /\ cur = [title |-> <<>>, content |-> <<>>]
    /\ failed_urls = <<>>
    /\ scraped = FALSE
    /\ upd = NoUpdate
    /\ build = NoBuild
    /\ merge = NoMerge
    /\ hist = [last |-> [HistBase EXCEPT !.op = "assembled", !.before = NoFile],
               run |-> RunBase, fetched |-> {}, crashes |-> 0,
               blocks |-> <<>>, discovered |-> known, diff |-> NoDiff,
               browser |-> "closed", created |-> {0}]

Crawled == CrawledAs(SiteOrder)

InitCrawled == Crawled /\ ledger = AsLines(SiteOrder)

FetchRun ==
    \/ StartScrape
    \/ AttemptFail
    \/ \E u \in URLs : AttemptSuccess(SiteTitle(u), SiteContent(u))
    \/ UpdateLedger
    \/ Rebuild
    \/ Summary

Next ==
    \/ \E urls \in SiteLists, update \in BOOLEAN, earmark \in BOOLEAN :
          CheckForUpdates(urls, update, earmark)
    \/ \E urls \in SiteLists, restore \in BOOLEAN : CheckForRevivedLinks(urls, restore)
    \/ FetchRun

Spec == InitCrawled /\ [][Next]_vars

-----------------------------------------------------------------------------
(* Fetch runs and kills alone, from every ledger in which the chapters
   taken down so far have been earmarked before the first run *)

InitFetch == Crawled /\ \E taken_down \in SUBSET URLs :
                            ledger = MarkDead(AsLines(SiteOrder), taken_down)

NextFetch == FetchRun \/ Kill

SpecFetch == InitFetch /\ [][NextFetch]_vars

-----------------------------------------------------------------------------
(* Fetch runs over an output file the suite did not write: any short text of
   line feeds, "---" lines, a title and a word, with a chapter list that is
   empty, or holds one pending chapter, or one completed chapter *)

FileTokens == {NL, DASH, Title(1), Word(1)}

ArchiveFiles == UNION {[1..n -> FileTokens] : n \in 0..MaxFile}

BuildLedgers == {<<>>, AsLines(<<Url(1)>>),
                 <<<<DONE>> \o SiteTitle(Url(1)) \o <<Url(1)>>>>}

InitBuild ==
    /\ db = [exists |-> TRUE, chunk_size |-> ChunkSize,
             last_chapter_count |-> 1, is_complete |-> FALSE,
             others |-> {}, readable |-> TRUE]
    /\ chunks = save_chunks({}, <<Url(1)>>, ChunkSize, 0)
    /\ tracker = {<<c.first, c.last>> : c \in chunks}
    /\ ledger \in BuildLedgers
    /\ archive \in ArchiveFiles
    /\ failedFile = <<>>
    /\ pc = "idle"
    /\ todo = <<>>
    /\ pos = 0
    /\ attempt = 0
    /\ cur = [title |-> <<>>, content |-> <<>>]
    /\ failed_urls = <<>>
    /\ scraped = FALSE
    /\ upd = NoUpdate
    /\ build = NoBuild
    /\ merge = NoMerge
    /\ hist = [last |-> HistBase, run |-> RunBase, fetched |-> {}, crashes |-> 0,
               blocks |-> <<>>, discovered |-> <<Url(1)>>, diff |-> NoDiff,
               browser |-> "closed", created |-> {0}]

NextBuild ==
    \/ StartScrape
    \/ AttemptFail
    \/ AttemptSuccess(SiteTitle(Url(1)), SiteContent(Url(1)))
    \/ UpdateLedger
    \/ Rebuild
    \/ Summary

SpecBuild == InitBuild /\ [][NextBuild]_vars

-----------------------------------------------------------------------------
(* Link discovery through the adapters: the list an adapter returns, in the
   order of the site's page, and its reversal flag.  First crawl, update
   checks and merges *)

NextDiscover ==
    \/ \E listed \in LiveLists, flag \in Flags : DiscoverNewStory(listed, flag)
    \/ \E listed \in LiveLists, flag \in Flags, update \in BOOLEAN :
          CheckForUpdates(get_all_chapter_links(listed, flag), update, FALSE)
    \/ AssembleChapterList

SpecDiscover == Init /\ [][NextDiscover]_vars

-----------------------------------------------------------------------------
(* The browser of the crawls and of the fetch runs: update checks, revival
   checks and fetch runs in which an exception can leave the loop, from the
   ledgers of the fetch runs *)

NextSession ==
    \/ \E urls \in SiteLists, update \in BOOLEAN : CheckForUpdates(urls, update, FALSE)
    \/ \E urls \in SiteLists, restore \in BOOLEAN : CheckForRevivedLinks(urls, restore)
    \/ FetchRun
    \/ Raise

SpecSession == InitFetch /\ [][NextSession]_vars

-----------------------------------------------------------------------------
(* A story whose chapter list links to a page of a site without an adapter:
   story URLs of both kinds are entered, the crawl finds the list, the chunks
   are merged and fetch runs follow *)

OffSite == Url(0)

OffSiteLists == {<<Url(1)>>, <<Url(1), OffSite>>, <<OffSite, Url(1)>>,
                 <<Url(1), OffSite, Url(2)>>}

NextOffSite ==
    \/ RejectStoryUrl(<<OffSite>>)
    \/ \E urls \in OffSiteLists : ScrapeNewStoryLinks(urls)
    \/ AssembleChapterList
    \/ FetchRun

SpecOffSite == Init /\ [][NextOffSite]_vars

-----------------------------------------------------------------------------
(* The registry: the story and other stories are scraped, checked for
   updates, merged, fetched and toggled, and stories.json can be damaged
   between two handlers.  The story has one or two chapters *)

ShortLists == {<<Url(1)>>, <<Url(1), Url(2)>>}

NextRegistry ==
    \/ \E urls \in ShortLists : ScrapeNewStoryLinks(urls)
    \/ \E name \in OtherStories : ScrapeAnotherStory(name)
    \/ \E urls \in ShortLists, update \in BOOLEAN : CheckForUpdates(urls, update, FALSE)
    \/ \E name \in {0} \cup OtherStories : ToggleStory(name)
    \/ AssembleChapterList
    \/ FetchRun
    \/ DamageRegistry

SpecRegistry == Init /\ [][NextRegistry]_vars

-----------------------------------------------------------------------------
(* Fetch runs whose archive rebuild is taken write by write, with kills
   between the writes *)

\* open(output_filepath, "w") in _build_final_file: the file is emptied
\* before the first block is written; next is where the caller goes on
OpenArchive(all_chapters_data, lines, next) ==
    /\ archive' = <<>>
    /\ build' = [chapters |-> all_chapters_data,
                 titles |-> OrderedTitles(_parse_input_file(lines)),
                 i |-> 0, next |-> next]
    /\ pc' = "building"
    /\ hist' = [hist EXCEPT !.last = [HistBase EXCEPT !.op = "opened", !.before = lines]]

\* the handler up to its first write: the final order check opens the
\* archive when nothing is left to scrape, otherwise the loop starts
BeginScrape ==
    IF /\ pc = "idle"
       /\ ledger # NoFile
       /\ UrlsToScrape(_parse_input_file(ledger)) = <<>>
       /\ DOMAIN _parse_output_file(archive) # {}
    THEN /\ load_stories_db(db).exists
         /\ OpenArchive(_parse_output_file(archive), ledger, "idle")
         /\ UNCHANGED <<db, chunks, tracker, ledger, failedFile, todo, pos, attempt, cur,
                        failed_urls, scraped, upd, merge>>
    ELSE StartScrape

\* after the loop: the rebuild opens the archive if something new was scraped
BeginRebuild ==
    /\ pc = "loopdone"
    /\ IF scraped
       THEN /\ OpenArchive(_parse_output_file(archive), ledger, "summary")
            /\ UNCHANGED <<db, chunks, tracker, ledger, failedFile, todo, pos, attempt,
                           cur, failed_urls, scraped, upd, merge>>
       ELSE Rebuild

\* one turn of "for title in ordered_titles": the block is written if the dict has the title
WriteBlock ==
    /\ pc = "building"
    /\ build.i < Len(build.titles)
    /\ \E title \in {build.titles[build.i + 1]} :
          archive' = IF title \in DOMAIN build.chapters
                     THEN archive \o Block(title, build.chapters[title]) ELSE archive
    /\ build' = [build EXCEPT !.i = @ + 1]
    /\ UNCHANGED <<db, chunks, tracker, ledger, failedFile, pc, todo, pos, attempt, cur,
                   failed_urls, scraped, upd, merge, hist>>

\* the with block of _build_final_file is left: the file is complete
CloseArchive ==
    /\ pc = "building"
    /\ build.i = Len(build.titles)
    /\ pc' = build.next
    /\ build' = NoBuild
    /\ hist' = [hist EXCEPT !.last = BuiltRecord(build.chapters, ledger),
                            !.blocks = BuiltBlocks(build.chapters, ledger)]
    /\ UNCHANGED <<db, chunks, tracker, ledger, archive, failedFile, todo, pos, attempt,
                   cur, failed_urls, scraped, upd, merge>>

NextRebuild ==
    \/ BeginScrape
    \/ AttemptFail
    \/ \E u \in URLs : AttemptSuccess(SiteTitle(u), SiteContent(u))
    \/ UpdateLedger
    \/ BeginRebuild
    \/ WriteBlock
    \/ CloseArchive
    \/ Summary
    \/ Kill

\* the ledgers of SpecFetch, and those of a story whose site listed only
\* some of the chapters when it was crawled
InitRebuild ==
    \/ InitFetch
    \/ \E known \in SiteLists \ {<<>>} : CrawledAs(known) /\ ledger = AsLines(known)

SpecRebuild == InitRebuild /\ [][NextRebuild]_vars

-----------------------------------------------------------------------------
(* modules/content_manager.py: assemble_chapter_list, the chapter list put
   together from chosen link files, over a ledger that fetch runs work on *)

MaxLines == 4         \* lines of chapter_list.txt

\* the answers to "How should I proceed?": 1 overwrite, 2 add unlisted links
Choices == {"1", "2"}

\* links_from_selection: the lines of the selected files, in the order of
\* the sort key (the start number of the name, 0 for a name without one)
LinksFromSelection(selected_files) == ConcatUrls(SortedByFirst(selected_files))

\* links_to_write in append mode: a link is kept unless it equals a whole
\* (stripped) line of chapter_list.txt; a link file line never starts with
\* the check mark and never holds the dead marker
UnlistedLinks(links_from_selection, existing_links) ==
    Filter(links_from_selection,
           {link \in Range(links_from_selection) : <<link>> \notin Range(existing_links)})

\* assemble_chapter_list for the story, the selection and the answer given
AssembleSelection(selected_files, action_choice) ==
    /\ pc = "idle"
    /\ load_stories_db(db).exists
    /\ selected_files # {}
    /\ selected_files \subseteq chunks
    /\ \E links \in {LinksFromSelection(selected_files)} :
       \E links_to_write \in {IF ledger # NoFile /\ action_choice = "2"
                              THEN UnlistedLinks(links, ledger) ELSE links} :
          IF links_to_write = <<>> THEN UNCHANGED <<ledger, hist>>
          ELSE /\ ledger' = IF ledger # NoFile /\ action_choice = "2"
                            THEN ledger \o AsLines(links_to_write)
                            ELSE AsLines(links_to_write)
               /\ Len(ledger') <= MaxLines
               /\ Note([HistBase EXCEPT
                          !.op = IF ledger = NoFile THEN "created"
                                 ELSE IF action_choice = "2" THEN "appended"
                                 ELSE "overwritten",
                          !.before = ledger, !.new = links_to_write])
    /\ UNCHANGED <<db, chunks, tracker, archive, failedFile, Locals>>

NextAssemble ==
    \/ \E selected_files \in SUBSET chunks, action_choice \in Choices :
          AssembleSelection(selected_files, action_choice)
    \/ FetchRun

SpecAssemble == InitFetch /\ [][NextAssemble]_vars

-----------------------------------------------------------------------------
(* The chunk merge taken write by write, with kills between the writes:
   first crawl, update checks and merges *)

\* open(chapter_list_path, "a") after the prompt was answered yes: the
\* ledger is created if it was absent, new_files is fixed for the loop
BeginMerge ==
    /\ pc = "idle"
    /\ load_stories_db(db).exists
    /\ NewFiles(chunks, tracker) # <<>>
    /\ merge' = [new_files |-> NewFiles(chunks, tracker), i |-> 0]
    /\ ledger' = IF ledger = NoFile THEN <<>> ELSE ledger
    /\ pc' = "merging"
    /\ hist' = [hist EXCEPT !.last = [HistBase EXCEPT !.op = "merging", !.before = ledger,
                                                      !.tracked = tracker],
                            !.run = RunBase]
    /\ UNCHANGED <<db, chunks, tracker, archive, failedFile, todo, pos, attempt, cur,
                   failed_urls, scraped, upd, build>>

\* one turn of "for filename in new_files": the chunk file is appended to the ledger
AppendChunk ==
    /\ pc = "merging"
    /\ merge.i < Len(merge.new_files)
    /\ ledger' = ledger \o AsLines(merge.new_files[merge.i + 1].urls)
    /\ merge' = [merge EXCEPT !.i = @ + 1]
    /\ UNCHANGED <<db, chunks, tracker, archive, failedFile, pc, todo, pos, attempt, cur,
                   failed_urls, scraped, upd, build, hist>>

\* json.dump(list(processed_files)) after the loop: the one write of the tracker
WriteTracker ==
    /\ pc = "merging"
    /\ merge.i = Len(merge.new_files)
    /\ tracker' = tracker \cup {<<c.first, c.last>> : c \in Range(merge.new_files)}
    /\ Idle
    /\ hist' = [hist EXCEPT !.last = [HistBase EXCEPT !.op = "assembled",
                                                      !.before = hist.last.before,
                                                      !.tracked = tracker]]
    /\ UNCHANGED <<db, chunks, ledger, archive, failedFile>>

NextMergeSteps ==
    \/ \E urls \in ShortLists : ScrapeNewStoryLinks(urls)
    \/ \E urls \in ShortLists, update \in BOOLEAN : CheckForUpdates(urls, update, FALSE)
    \/ BeginMerge
    \/ AppendChunk
    \/ WriteTracker
    \/ Kill

SpecMergeSteps == Init /\ [][NextMergeSteps]_vars

-----------------------------------------------------------------------------
(* Fetch runs that go on: the process runs its next statement unless it is
   killed, and every attempt returns (page.goto and wait_for_selector give up
   at their timeout) *)

\* the steps of a run around its rebuild: the loop and the summary
LoopStep ==
    \/ AttemptFail
    \/ \E u \in URLs : AttemptSuccess(SiteTitle(u), SiteContent(u))
    \/ UpdateLedger
    \/ Summary

\* the step from the end of the loop to the summary; among the steps of
\* NextFetch these are the steps of Rebuild, which is enabled wherever the
\* loop is over
LeavesLoop == pc = "loopdone" /\ pc' = "summary"

SpecFetchFair ==
    InitFetch /\ [][NextFetch]_vars /\ WF_vars(LoopStep) /\ WF_pc(LeavesLoop)

-----------------------------------------------------------------------------
(* Update checks that apply their diff write by write, and kills between and
   inside the writes, from every state a first crawl and merge can leave *)

InitApply == \E known \in SiteLists \ {<<>>} :
                CrawledAs(known) /\ ledger = AsLines(known)

NextApply ==
    \/ \E urls \in SiteLists, earmark \in BOOLEAN : BeginUpdate(urls, TRUE, earmark)
    \/ TruncateLedger
    \/ WriteLine
    \/ SaveChunks
    \/ SaveRegistry
    \/ Kill

SpecApply == InitApply /\ [][NextApply]_vars

-----------------------------------------------------------------------------
(* Vocabulary of the claims: the three states of a ledger line *)

IsPending(line)   == Len(line) = 1 /\ IsUrlToken(line[1])
IsCompleted(line) == Len(line) >= 3 /\ line[1] = DONE /\ IsUrlToken(line[Len(line)])
IsDead(line)      == Len(line) >= 2 /\ line[1] = DEAD
UrlOf(line)       == line[Len(line)]
TitleOf(line)     == SubSeq(line, 2, Len(line) - 1)

RECURSIVE CompletedTitles(_)
CompletedTitles(lines) ==
    IF lines = <<>> THEN <<>>
    ELSE IF IsCompleted(Head(lines))
         THEN <<TitleOf(Head(lines))>> \o CompletedTitles(Tail(lines))
         ELSE CompletedTitles(Tail(lines))

RunOver == pc \in {"loopdone", "summary"}

-----------------------------------------------------------------------------
(* C1: whenever the Archive Builder has just written the archive, the titles
   of the blocks it wrote are exactly the titles of the completed ledger
   entries, in ledger order (so no block stands for a pending or dead entry). *)
C1_ArchiveHoldsCompletedTitles ==
    hist.last.op = "built" => hist.last.written = CompletedTitles(ledger)

-----------------------------------------------------------------------------
(* C2: the rebuilt archive depends only on the ledger and on the set of
   blocks in the file, not on the order in which the blocks were appended:
   parse-then-rebuild of the same blocks in any other order gives the file
   that parse-then-rebuild of the archive gives. *)
RECURSIVE ConcatBlocks(_)
ConcatBlocks(bs) ==
    IF bs = <<>> THEN <<>>
    ELSE Block(Head(bs).title, Head(bs).content) \o ConcatBlocks(Tail(bs))

Orders(bs) == {[k \in 1..Len(bs) |-> bs[p[k]]] :
                  p \in {q \in [1..Len(bs) -> 1..Len(bs)] : IsInjective(q)}}

C2_RebuildIgnoresAppendOrder ==
    ledger # NoFile =>
        \A other \in Orders(hist.blocks) :
            _build_final_file(_parse_output_file(ConcatBlocks(other)), ledger)
              = _build_final_file(_parse_output_file(archive), ledger)

-----------------------------------------------------------------------------
(* C3: at the end of a fetch run, a chapter that was pending at the start and
   whose fetch failed twice and succeeded on the third attempt is completed
   in the ledger and is not in the failure list; one whose fetch failed on
   all three attempts is in the failure list and is still pending. *)
C3_RetryOutcome ==
    RunOver =>
        \A p \in 1..Len(todo) :
            IsPending(hist.run.start[todo[p].index]) =>
                /\ p \in hist.run.third =>
                      /\ IsCompleted(ledger[todo[p].index])
                      /\ <<UrlOf(ledger[todo[p].index])>> = todo[p].url
                      /\ todo[p].url \notin Range(failed_urls)
                /\ p \in hist.run.exhausted =>
                      /\ todo[p].url \in Range(failed_urls)
                      /\ IsPending(ledger[todo[p].index])
                      /\ ledger[todo[p].index] = hist.run.start[todo[p].index]

C3_Witness ==
    /\ pc = "summary"
    /\ \E p \in hist.run.third : IsPending(hist.run.start[todo[p].index])
    /\ \E p \in hist.run.exhausted : IsPending(hist.run.start[todo[p].index])

-----------------------------------------------------------------------------
(* C4: every fetch attempt, in any run, is made for an entry whose ledger
   line is pending: never for a completed entry, never for an entry that
   carries the dead marker. *)
C4_OnlyPendingAttempted ==
    hist.last.op \in {"fetched", "fetch_failed"} => IsPending(hist.last.line)

-----------------------------------------------------------------------------
(* C5: at every point where a fetch run can be interrupted, the ledger on
   disk marks completed exactly the chapters fetched successfully so far,
   and no fetch is made for a chapter that was already fetched. *)
CompletedUrls(lines) ==
    {<<UrlOf(lines[i])>> : i \in {k \in 1..Len(lines) : IsCompleted(lines[k])}}

C5_LedgerMarksExactlyFetched ==
    /\ CompletedUrls(ledger) = hist.fetched
    /\ hist.last.op = "fetched" => ~hist.last.refetch

-----------------------------------------------------------------------------
(* C6: at the end of a fetch run every entry that was pending at its start
   has received at least one fetch attempt, whatever happened to the entries
   before it. *)
C6_EveryPendingEntryAttempted ==
    RunOver =>
        \A i \in 1..Len(hist.run.start) :
            IsPending(hist.run.start[i]) =>
                \E p \in hist.run.attempted : todo[p].index = i

C6_Witness ==
    /\ RunOver
    /\ \E p \in hist.run.exhausted, r \in hist.run.attempted :
          /\ p < r
          /\ IsPending(hist.run.start[todo[p].index])
          /\ IsPending(hist.run.start[todo[r].index])

-----------------------------------------------------------------------------
(* C7: an update check reports as new the links of the live list that are not
   known, in the relative order of the live list, and as removed the known
   links that are not live; live = [u1,u2,u3] and known = [u1,u2] give
   new = [u3] and removed = []. *)
C7_DiffOfLiveAndKnown ==
    hist.last.op \in {"marked", "updated"} =>
        LET live == hist.last.live
            known == hist.last.known
            new == hist.last.new
        IN /\ Range(new) = Range(live) \ Range(known)
           /\ IsInjective(new)
           /\ \A a, b \in 1..Len(new) :
                 a < b => IndexOf(live, new[a]) < IndexOf(live, new[b])
           /\ hist.last.removed = Range(known) \ Range(live)
           /\ (live = <<Url(1), Url(2), Url(3)>> /\ known = <<Url(1), Url(2)>>)
                 => (new = <<Url(3)>> /\ hist.last.removed = {})

C7_Witness ==
    /\ hist.last.op = "updated"
    /\ hist.last.live = <<Url(1), Url(2), Url(3)>>
    /\ hist.last.known = <<Url(1), Url(2)>>
    /\ hist.last.new = <<Url(3)>>
    /\ hist.last.removed = {}

-----------------------------------------------------------------------------
(* C8: the dead-marking pass flags dead exactly the ledger lines whose URL is
   in the removed set, writes every other line back unchanged and keeps the
   number and the order of the lines. *)
C8_MarkDeadInPlace ==
    hist.last.op = "marked" =>
        LET before == hist.last.before
        IN /\ Len(ledger) = Len(before)
           /\ \A i \in 1..Len(before) :
                 IF UrlOf(before[i]) \in hist.last.removed
                 THEN /\ IsDead(ledger[i])
                      /\ ledger[i] = IF IsDead(before[i]) THEN before[i]
                                     ELSE <<DEAD>> \o before[i]
                 ELSE ledger[i] = before[i]

C8_Witness ==
    /\ hist.last.op = "marked"
    /\ \E i, j, k \in 1..Len(ledger) :
          /\ i < j
          /\ UrlOf(hist.last.before[i]) \in hist.last.removed
          /\ ~IsDead(hist.last.before[i]) /\ IsDead(ledger[i])
          /\ UrlOf(hist.last.before[j]) \notin hist.last.removed
          /\ ~IsDead(ledger[j])
          /\ UrlOf(hist.last.before[k]) \in hist.last.removed
          /\ IsDead(hist.last.before[k])

-----------------------------------------------------------------------------
(* C9: an applied restore puts every restored entry back at its own ledger
   position, not at the end: a pending entry that was dead and whose URL is
   live again stands unmarked where it stood, no other line changes, and the
   ledger keeps its length and order. *)
C9_RestoreInPlace ==
    hist.last.op = "restored" =>
        LET before == hist.last.before
            live == Range(hist.last.live)
        IN /\ Len(ledger) = Len(before)
           /\ \A i \in 1..Len(before) :
                 /\ UrlOf(ledger[i]) = UrlOf(before[i])
                 /\ \/ ledger[i] = before[i]
                    \/ /\ IsDead(before[i])
                       /\ UrlOf(before[i]) \in live
                       /\ ledger[i] = Tail(before[i])
                 /\ (IsDead(before[i]) /\ IsPending(Tail(before[i]))
                        /\ UrlOf(before[i]) \in live) => ledger[i] = Tail(before[i])

C9_Witness ==
    /\ hist.last.op = "restored"
    /\ \E i, j \in 1..Len(ledger) :
          /\ i < j
          /\ IsDead(hist.last.before[i])
          /\ ledger[i] = Tail(hist.last.before[i])
          /\ ledger[j] = hist.last.before[j]

-----------------------------------------------------------------------------
(* C10: an applied restore unmarks every dead entry whose URL is in the live
   set, pending or completed, and leaves dead every entry whose URL is not. *)
C10_EveryLiveDeadEntryRestored ==
    hist.last.op = "restored" =>
        \A i \in 1..Len(hist.last.before) :
            IsDead(hist.last.before[i]) =>
                (UrlOf(hist.last.before[i]) \in Range(hist.last.live) <=> ~IsDead(ledger[i]))

-----------------------------------------------------------------------------
(* C11: an update check or a revival check that gets no live set from the
   adapter reports the retrieval failure and leaves the ledger, the chunk
   files and the registry record as they were; no check writes anything on
   the strength of an empty live set. *)
C11_RetrievalFailureWritesNothing ==
    (/\ hist.last.op \in {"retrieval_failed", "marked", "updated", "restored"}
     /\ hist.last.live = <<>>)
        => /\ hist.last.op = "retrieval_failed"
           /\ ledger = hist.last.before
           /\ chunks = hist.last.store
           /\ db = hist.last.registry

C11_Witness ==
    /\ hist.last.op = "retrieval_failed"
    /\ DeadLinks(ledger) # {}
    /\ \E i \in 1..Len(ledger) : IsCompleted(ledger[i])

-----------------------------------------------------------------------------
(* C12: an update check or a revival check whose prompt is answered no
   changes no ledger line, no chunk file and no registry field. *)
C12_DeclinedCheckWritesNothing ==
    hist.last.op \in {"update_declined", "restore_declined"}
        => /\ ledger = hist.last.before
           /\ chunks = hist.last.store
           /\ db = hist.last.registry

C12_Witness ==
    /\ hist.last.op = "update_declined"
    /\ DeadLinks(ledger) # {}
    /\ db.last_chapter_count < Len(SiteOrder)

-----------------------------------------------------------------------------
(* C13: after the first crawl and any number of applied updates, the chunk
   files tile the positions 1..n of the discovered link sequence (every
   position in exactly one file, no gap), the file that covers a position
   holds the link discovered at that position, and no link occurs twice. *)
C13_ChunksReproduceDiscovered ==
    db.exists =>
        /\ \A k \in 1..Len(hist.discovered) :
              Cardinality({c \in chunks : c.first <= k /\ k <= c.last}) = 1
        /\ \A c \in chunks :
              /\ 1 <= c.first /\ c.first <= c.last /\ c.last <= Len(hist.discovered)
              /\ Len(c.urls) = c.last - c.first + 1
              /\ \A j \in 1..Len(c.urls) : c.urls[j] = hist.discovered[c.first + j - 1]
        /\ IsInjective(hist.discovered)
        /\ read_all_links_from_folder(chunks) = hist.discovered

C13_Witness ==
    /\ hist.last.op = "updated"
    /\ hist.last.new # <<>>
    /\ Cardinality(chunks) >= 3
    /\ hist.discovered # SiteOrder

-----------------------------------------------------------------------------
(* C14: a merge changes nothing when it is invoked again on the same chunk
   files: from every state, the ledger and the tracker that one merge leaves
   are left as they are by a second merge. *)
C14_MergeIdempotent ==
    db.exists =>
        LET lines1 == MergedLedger(ledger, chunks, tracker)
            tracker1 == MergedTracker(chunks, tracker)
        IN /\ MergedLedger(lines1, chunks, tracker1) = lines1
           /\ MergedTracker(chunks, tracker1) = tracker1
           /\ hist.last.op = "assembled" =>
                 /\ MergedLedger(ledger, chunks, tracker) = ledger
                 /\ MergedTracker(chunks, tracker) = tracker

C14_Witness ==
    /\ hist.last.op = "assembled"
    /\ hist.last.tracked # {}
    /\ Len(ledger) > Len(hist.last.before)
    /\ Cardinality(tracker) >= 3

-----------------------------------------------------------------------------
(* C15: a merge keeps the ledger it found and appends to it the links of the
   chunk files that were not in the tracker, and only those, file after file
   in ascending order of the start number of the file name taken as a number
   (a file that starts at 10 comes after one that starts at 9). *)
RECURSIVE LinksIn(_)
LinksIn(files) ==
    IF files = {} THEN 0
    ELSE LET c == CHOOSE x \in files : TRUE
         IN Len(c.urls) + LinksIn(files \ {c})

C15_MergeAppendsNewFilesInNumericOrder ==
    hist.last.op = "assembled" =>
        LET before == IF hist.last.before = NoFile THEN <<>> ELSE hist.last.before
            new == {c \in chunks : <<c.first, c.last>> \notin hist.last.tracked}
        IN /\ Len(ledger) = Len(before) + LinksIn(new)
           /\ SubSeq(ledger, 1, Len(before)) = before
           /\ \A c \in new : \A j \in 1..Len(c.urls) :
                 ledger[Len(before) + LinksIn({d \in new : d.first < c.first}) + j]
                    = <<c.urls[j]>>

C15_Witness ==
    /\ hist.last.op = "assembled"
    /\ hist.last.tracked # {}
    /\ \E c, d \in chunks :
          /\ <<c.first, c.last>> \notin hist.last.tracked
          /\ <<d.first, d.last>> \notin hist.last.tracked
          /\ c.first < 10 /\ 10 <= d.first

-----------------------------------------------------------------------------
(* C16: the file the Archive Builder has just written is a fixed point of the
   builder: parsing it and building again against the same ledger gives the
   same file, token for token. *)
C16_BuilderFixedPoint ==
    hist.last.op = "built" =>
        _build_final_file(_parse_output_file(archive), ledger) = archive

C16_Witness ==
    /\ hist.last.op = "built"
    /\ Len(hist.last.written) >= 2
    /\ hist.last.written # CompletedTitles(ledger)
    /\ _build_final_file(_parse_output_file(archive), ledger) = archive

-----------------------------------------------------------------------------
(* C17: wherever an applied update check stops, at its end or killed between
   two of its writes, the ledger, the chunk files and the registry record
   together are either all as they were before the check or all as the whole
   diff leaves them. *)
C17_DiffAllOrNothing ==
    (/\ pc = "idle"
     /\ hist.diff # NoDiff
     /\ ~(hist.last.op = "killed" /\ hist.last.at = "upd_write"))
        => <<ledger, chunks, db>> \in {hist.diff.none, hist.diff.all}

-----------------------------------------------------------------------------
(* C18: wherever an applied update check stops, killed inside the rewrite of
   the ledger included, the ledger on disk is either the whole old ledger or
   the whole new one. *)
C18_LedgerRewriteAtomic ==
    (pc = "idle" /\ hist.diff # NoDiff)
        => ledger \in {hist.diff.none[1], hist.diff.all[1]}

-----------------------------------------------------------------------------
(* C19: every fetch attempt of a run is the first, second or third made for
   its URL, attempt n is made with a timeout of n times 20 seconds, and no
   attempt is made for a URL after an attempt for it has succeeded. *)
C19_ThreeAttemptsEscalatingTimeout ==
    hist.last.op \in {"fetched", "fetch_failed"} =>
        /\ hist.last.n \in 1..3
        /\ hist.last.timeout = hist.last.n * 20 * 1000
        /\ ~hist.last.after
        /\ hist.last.op = "fetched" => pc = "appended"

C19_Witness ==
    /\ hist.last.op = "fetched"
    /\ hist.last.n = 3
    /\ hist.last.timeout = 60000
    /\ hist.run.exhausted # {}

-----------------------------------------------------------------------------
(* C20: the loop sleeps only between two attempts for the same URL, 2 seconds
   after the first failure and 4 after the second: after the failure of
   attempt n the URL has slept min(n, 2) times, so a URL that fails three
   times has slept twice. *)
C20_BackoffOnlyBetweenAttempts ==
    hist.last.op = "fetch_failed" =>
        hist.last.slept = SubSeq(<<2, 4>>, 1, MinOf(hist.last.n, 2))

-----------------------------------------------------------------------------
(* C21: when the fetch loop of a run has completed and the handler has
   reached its summary, the Archive Builder has just rewritten the archive,
   also in a run where every attempted URL failed. *)
C21_BuilderRunsAfterEveryLoop ==
    pc = "summary" => hist.last.op = "built"

-----------------------------------------------------------------------------
(* C22: within one fetch run the ledger positions are attempted in ledger
   order: the positions the loop has come to, in the order in which it came
   to them, are strictly increasing, so all attempts for a lower position
   are made before the first attempt for a higher one. *)
C22_AttemptsInLedgerOrder ==
    \A i, j \in 1..Len(hist.run.order) :
        i < j => hist.run.order[i] < hist.run.order[j]

C22_Witness ==
    /\ Len(hist.run.order) >= 2
    /\ hist.run.exhausted # {}
    /\ hist.run.done # {}
    /\ hist.last.op = "fetch_failed"
    /\ hist.last.n = 2

-----------------------------------------------------------------------------
(* C23: the Archive Builder is safe on degenerate input.  When it has just
   rebuilt the archive for a chapter list without a completed entry, the
   archive is empty; and an archive file in which no "---" is followed by a
   "---" that ends its line before an empty line, so that no chapter block
   can match, parses to the empty title-to-body map. *)
NoBlock(f) ==
    ~\E a, b \in 1..Len(f) :
        /\ a < b
        /\ b + 2 <= Len(f)
        /\ f[a] = DASH /\ f[b] = DASH /\ f[b + 1] = NL /\ f[b + 2] = NL

C23_BuilderSafeOnDegenerateInput ==
    /\ (hist.last.op = "built" /\ CompletedTitles(hist.last.before) = <<>>)
          => archive = <<>>
    /\ NoBlock(archive) => _parse_output_file(archive) = EmptyMap

\* the builder has emptied a file that held a block for a chapter the list
\* does not know
C23_WitnessBuild ==
    /\ hist.last.op = "built"
    /\ hist.last.before = <<>>
    /\ archive = <<>>

\* the handler has parsed a file with "---" lines and no block and left it alone
C23_WitnessParse ==
    /\ hist.last.op = "nothing_to_scrape"
    /\ Len(archive) = MaxFile
    /\ \E a, b \in 1..Len(archive) : a < b /\ archive[a] = DASH /\ archive[b] = DASH
    /\ NoBlock(archive)

-----------------------------------------------------------------------------
(* C24: whenever no handler is running, the browser of the last crawl or
   fetch run is closed, whichever way the handler was left: by its return,
   by a crawl that raised, or by an exception raised inside the fetch loop. *)
C24_BrowserClosedOnEveryExit ==
    pc = "idle" => hist.browser = "closed"

\* the fetch loop was left by an exception after a chapter had been appended
\* and before the ledger was marked
C24_Witness ==
    /\ pc = "idle"
    /\ hist.last.op = "raised"
    /\ hist.last.at = "appended"
    /\ hist.browser = "closed"

-----------------------------------------------------------------------------
(* C25: a link file whose name holds no start-end numbers is merged like the
   others: when a merge has just run, every .txt file of the links folder is
   in the tracker and its links are in the ledger. *)
C25_StrayFileIsMerged ==
    hist.last.op = "assembled" =>
        \A c \in chunks :
            /\ <<c.first, c.last>> \in tracker
            /\ \A j \in 1..Len(c.urls) : <<c.urls[j]>> \in Range(ledger)

-----------------------------------------------------------------------------
(* C26: when a fetch run has just finished, failed_chapters.txt lists exactly
   the URLs that exhausted their retries in that run, each of them is the
   URL of a pending line of the ledger, and the pending lines of the ledger
   are exactly those, so that the next run retries them and nothing else. *)
C26_FailureListIsLastRunsFailures ==
    hist.last.op = "finished" =>
        /\ failedFile = hist.last.failed
        /\ \A k \in 1..Len(failedFile) :
              \E i \in 1..Len(ledger) : IsPending(ledger[i]) /\ ledger[i] = failedFile[k]
        /\ {ledger[i] : i \in {j \in 1..Len(ledger) : IsPending(ledger[j])}}
              = Range(failedFile)

-----------------------------------------------------------------------------
(* C27: a URL of a site without an adapter changes nothing.  A link scrape
   that was given such a story URL leaves the chunk files, the registry and
   the ledger as they were; and for a pending ledger line with such a URL
   the fetch loop makes no attempt (so it never sleeps for it) and the run
   writes nothing about it: it is not listed in failed_chapters.txt. *)
UnsupportedLine(line) == IsPending(line) /\ ~SupportedSite(line)

C27_UnsupportedUrlChangesNothing ==
    /\ hist.last.op = "unsupported_url" =>
          /\ chunks = hist.last.store
          /\ db = hist.last.registry
          /\ ledger = hist.last.before
    /\ hist.last.op \in {"fetched", "fetch_failed"} => ~UnsupportedLine(hist.last.line)
    /\ \A k \in 1..Len(failedFile) : ~UnsupportedLine(failedFile[k])

-----------------------------------------------------------------------------
(* C28: the registry is written only by the link scrapes, by an applied
   update check and by the toggle (a damage done to the file from outside
   is no write of the suite): no step of a fetch run and no merge changes
   it; and a toggle changes the is_complete field of the chosen story and
   nothing else in any record. *)
RegistryWriters == {"scrape_new_story_links", "scrape_another_story", "updated",
                    "marked", "toggled"}

C28_RegistryFrame ==
    [][/\ db' # db => hist'.last.op \in RegistryWriters \cup {"registry_damaged"}
       /\ (hist'.last.op = "toggled" /\ hist' # hist) =>
             /\ db'.exists = db.exists
             /\ db'.chunk_size = db.chunk_size
             /\ db'.last_chapter_count = db.last_chapter_count
             /\ db'.readable = db.readable
             /\ {o.name : o \in db'.others} = {o.name : o \in db.others}
             /\ IF hist'.last.story = 0
                THEN db'.is_complete # db.is_complete /\ db'.others = db.others
                ELSE /\ db'.is_complete = db.is_complete
                     /\ \A o \in db.others :
                           IF o.name = hist'.last.story
                           THEN [o EXCEPT !.is_complete = ~@] \in db'.others
                           ELSE o \in db'.others]_vars

\* another story was toggled while the story had a record, a ledger with a
\* completed chapter and a failure list
C28_Witness ==
    /\ hist.last.op = "toggled"
    /\ hist.last.story # 0
    /\ db.exists /\ db.readable
    /\ ledger # NoFile
    /\ \E i \in 1..Len(ledger) : IsCompleted(ledger[i])
    /\ failedFile # <<>>

-----------------------------------------------------------------------------
(* C29: a story record, once created, stays: whenever stories.json can be
   read, it holds a record for every story that a link scrape has created. *)
InRegistry(file, name) ==
    IF name = 0 THEN file.exists ELSE name \in {o.name : o \in file.others}

C29_StoryRecordsPersist ==
    db.readable => \A name \in hist.created : InRegistry(db, name)

-----------------------------------------------------------------------------
(* C30: the live list of a link scrape is the adapter's list read backwards
   when the adapter's REVERSE_CHAPTERS is true, and the adapter's list as it
   stands when the flag is false or the adapter has none. *)
C30_ReversalFollowsFlag ==
    hist.last.op = "scrape_new_story_links" =>
        /\ Len(hist.last.live) = Len(hist.last.listed)
        /\ \A k \in 1..Len(hist.last.listed) :
              hist.last.live[k] =
                 IF hist.last.flag = "true"
                 THEN hist.last.listed[Len(hist.last.listed) + 1 - k]
                 ELSE hist.last.listed[k]

\* a list of three links that came newest first was turned round, so that
\* the chunk files hold it in the site's chronological order
C30_Witness ==
    /\ hist.last.op = "scrape_new_story_links"
    /\ hist.last.flag = "true"
    /\ hist.last.listed = Reverse(SiteOrder)
    /\ hist.last.live = SiteOrder
    /\ read_all_links_from_folder(chunks) = SiteOrder

-----------------------------------------------------------------------------
(* C31: whenever the Archive Builder has just written the archive and two
   completed ledger entries of different chapters carry the same title, all
   the blocks of that title in the rebuilt archive hold one and the same
   body, the build went through without a report, and of the two chapters'
   texts at most one has left a word in the archive: the other body is gone
   without a trace. *)
Words(s) == {s[k] : k \in {j \in 1..Len(s) : s[j][1] = "word"}}

SameTitlePairs(lines) ==
    {p \in (1..Len(lines)) \X (1..Len(lines)) :
        /\ p[1] < p[2]
        /\ IsCompleted(lines[p[1]]) /\ IsCompleted(lines[p[2]])
        /\ TitleOf(lines[p[1]]) = TitleOf(lines[p[2]])
        /\ UrlOf(lines[p[1]]) # UrlOf(lines[p[2]])}

LeftTrace(line, file) == Words(SiteContent(UrlOf(line))) \cap Words(file) # {}

C31_DuplicateTitleKeepsOneBody ==
    hist.last.op = "built" =>
        \A p \in SameTitlePairs(ledger) :
            /\ \A a, b \in 1..Len(hist.blocks) :
                  (hist.blocks[a].title = TitleOf(ledger[p[1]])
                     /\ hist.blocks[b].title = TitleOf(ledger[p[1]]))
                  => hist.blocks[a].content = hist.blocks[b].content
            /\ ~(LeftTrace(ledger[p[1]], archive) /\ LeftTrace(ledger[p[2]], archive))

\* two chapters of one title are completed, both were fetched, and the
\* archive just rebuilt holds blocks of that title
C31_Witness ==
    /\ hist.last.op = "built"
    /\ \E p \in SameTitlePairs(ledger) :
          /\ {<<UrlOf(ledger[p[1]])>>, <<UrlOf(ledger[p[2]])>>} \subseteq hist.fetched
          /\ \E a \in 1..Len(hist.blocks) : hist.blocks[a].title = TitleOf(ledger[p[1]])
          /\ LeftTrace(ledger[p[1]], archive) \/ LeftTrace(ledger[p[2]], archive)

-----------------------------------------------------------------------------
(* C32: in every state of a fetch run and of an archive rebuild, so wherever
   the process may stop, every ledger entry that is marked completed has a
   block with its title in the archive file. *)
HasBlockOf(file, title) ==
    \E k \in 1..Len(file) :
        /\ k + Len(title) + 4 <= Len(file)
        /\ SubSeq(file, k, k + Len(title) + 4) = <<NL, DASH>> \o title \o <<DASH, NL, NL>>

C32_CompletedEntryHasBlock ==
    ledger # NoFile =>
        \A i \in 1..Len(ledger) :
            IsCompleted(ledger[i]) => HasBlockOf(archive, TitleOf(ledger[i]))

-----------------------------------------------------------------------------
(* C33: when a fetch run comes to its end without a failed URL, after any
   earlier runs and kills, the archive is the chapters of the ledger, one
   block each, in ledger order.  Stated for the stories the title-keyed map
   and the block pattern can hold: chapter titles differ from each other and
   no chapter text has a line "---". *)
PlainStory(lines) ==
    \A i \in 1..Len(lines) :
        /\ DASH \notin Range(SiteContent(UrlOf(lines[i])))
        /\ \A j \in 1..Len(lines) :
              SiteTitle(UrlOf(lines[i])) = SiteTitle(UrlOf(lines[j])) => i = j

RECURSIVE ChaptersInOrder(_)
ChaptersInOrder(lines) ==
    IF lines = <<>> THEN <<>>
    ELSE Block(SiteTitle(UrlOf(Head(lines))), SiteContent(UrlOf(Head(lines))))
           \o ChaptersInOrder(Tail(lines))

RunEndedClean ==
    \/ pc = "summary" /\ failed_urls = <<>>
    \/ pc = "idle" /\ hist.last.op \in {"built", "nothing_to_scrape"}

C33_ResumedRunsGiveEachChapterOnce ==
    (RunEndedClean /\ PlainStory(ledger)) => archive = ChaptersInOrder(ledger)

-----------------------------------------------------------------------------
(* C34: when the chapter list has just been assembled in append mode over a
   ledger in which every URL stood on one line, every URL still stands on at
   most one line: no URL that the ledger held as completed or as dead has
   been appended as a pending line. *)
LineUrls(lines) == [i \in 1..Len(lines) |-> UrlOf(lines[i])]

C34_AppendAddsNoListedUrl ==
    (hist.last.op = "appended" /\ IsInjective(LineUrls(hist.last.before)))
        => IsInjective(LineUrls(ledger))

-----------------------------------------------------------------------------
(* C35: when an update check has just been applied with every removed link
   earmarked dead, the diff of the same live list against the link files as
   they now stand is empty: a repeated check would report no new and no
   removed link. *)
C35_AppliedUpdateConverges ==
    (\/ hist.last.op = "marked"
     \/ hist.last.op = "updated" /\ hist.last.removed = {})
    => /\ NewUrls(hist.last.live, read_all_links_from_folder(chunks)) = <<>>
       /\ RemovedUrls(hist.last.live, read_all_links_from_folder(chunks)) = {}

-----------------------------------------------------------------------------
(* C36: no step of a fetch run changes the number or the order of the
   ledger's lines.  The only line a step changes is the line of the URL just
   fetched, which goes from pending to completed with the same URL and the
   fetched title; the step that follows a successful fetch makes that change,
   and a failed fetch changes no line. *)
C36_FetchRunFrame ==
    [][/\ Len(ledger') = Len(ledger)
       /\ \A i \in 1..Len(ledger) :
             ledger'[i] # ledger[i] =>
                /\ pc = "appended"
                /\ hist.last.op = "fetched"
                /\ i = todo[pos].index
                /\ IsPending(ledger[i])
                /\ IsCompleted(ledger'[i])
                /\ UrlOf(ledger'[i]) = UrlOf(ledger[i])
                /\ TitleOf(ledger'[i]) = cur.title
       /\ (pc = "appended" /\ pc' # "idle")
             => ledger'[todo[pos].index] # ledger[todo[pos].index]
       /\ hist'.last.op = "fetch_failed" => ledger' = ledger]_vars

\* a line between two others has just been completed, in a run in which a
\* URL has failed
C36_Witness ==
    /\ hist.last.op = "marked_completed"
    /\ failed_urls # <<>>
    /\ \E i \in 2..(Len(ledger) - 1) :
          /\ ledger[i] # hist.last.before[i]
          /\ IsCompleted(ledger[i])

-----------------------------------------------------------------------------
(* C37: in every state that merges, whole or killed between the append of
   the chunk files and the write of the tracker, can leave, every URL of
   every chunk file stands on at most one line of the ledger. *)
TimesListed(lines, u) == Cardinality({i \in 1..Len(lines) : lines[i] = <<u>>})

C37_ChunkUrlsListedOnce ==
    (pc = "idle" /\ ledger # NoFile) =>
        \A c \in chunks : \A u \in Range(c.urls) : TimesListed(ledger, u) <= 1

-----------------------------------------------------------------------------
(* C38: for every ledger the suite can leave and every set of URLs whose
   entries are not dead in it, earmarking the set and then restoring with a
   live list that holds exactly the set gives back the ledger as it was,
   pending and completed entries alike, and earmarking the set a second time
   changes nothing. *)
MarkThenRestore(lines, removed_urls) ==
    Restore(MarkDead(lines, removed_urls),
            RevivedLinks(MarkDead(lines, removed_urls), Filter(SiteOrder, removed_urls)))

C38_MarkRestoreRoundTrip ==
    ledger # NoFile =>
        \A removed_urls \in SUBSET {UrlOf(ledger[i]) :
                                      i \in {k \in 1..Len(ledger) : ~StartsDead(ledger[k])}} :
            /\ MarkThenRestore(ledger, removed_urls) = ledger
            /\ MarkDead(MarkDead(ledger, removed_urls), removed_urls)
                  = MarkDead(ledger, removed_urls)

-----------------------------------------------------------------------------
(* C39: every fetch run that has started comes to its end; no URL gets more
   than 3 attempts in a run; and when the loop of a run is over, every entry
   that was pending at the start of the run is either completed in the
   ledger and absent from the run's failure list, or still pending and in
   the failure list. *)
PendingAtStart == {p \in 1..Len(todo) : IsPending(hist.run.start[todo[p].index])}

C39_RunTerminatesAndPartitions ==
    /\ [](hist.last.op \in {"fetched", "fetch_failed"} => hist.last.n <= 3)
    /\ [](RunOver =>
            \A p \in PendingAtStart :
                IsCompleted(ledger[todo[p].index]) # (todo[p].url \in Range(failed_urls)))
    /\ [](RunOver =>
            \A p \in PendingAtStart :
                \/ IsCompleted(ledger[todo[p].index])
                \/ ledger[todo[p].index] = hist.run.start[todo[p].index])
    /\ (pc # "idle") ~> (pc = "idle")

\* a run is over in which one pending entry was completed and another failed
C39_Witness ==
    /\ pc = "summary"
    /\ \E p, q \in PendingAtStart :
          /\ IsCompleted(ledger[todo[p].index])
          /\ todo[q].url \in Range(failed_urls)

====
